---- MODULE Spec2Model ----
(***************************************************************************)
(* Model of the rust_tasks storage layer: the embedded-database backend    *)
(* (SQLiteStorage: the tables tasks, task_to_tag and deleted_tasks, the    *)
(* view tasks_view, and the operations save, update, delete,               *)
(* search_using_ulid, deleted_ulids, unsafe_query) and the two-way         *)
(* synchronisation SQLiteStorage::sync between a local store ("self") and  *)
(* a peer store ("other"); the delete of the remote-API backend            *)
(* (APIStorage over tasks_server); Task::next_task and Task::do_task; and  *)
(* the query of next_tasks.                                                *)
(***************************************************************************)
EXTENDS Integers, Sequences, FiniteSets, TLC

(***************************************************************************)
(* Bounds of the model.                                                    *)
(***************************************************************************)
\* number of client mutations (save / update / delete calls) in a behaviour
MaxOps == 2
\* the clock stops advancing at this tick
MaxNow == 4
\* number of calls on the single store of StoreSpec
MaxCalls == 2
\* the last calendar date a due date of RecurSpec falls on
MaxDueDay == 7
\* number of requests tasks_server handles at the same time
MaxHandlers == 2

\* the times of day the clock distinguishes within one calendar date
TimesOfDay == {"00:00:00", "12:00:00"}
TicksPerDay == Cardinality(TimesOfDay)

(***************************************************************************)
(* Option<T>: None is the empty tuple, Some(x) the one-element tuple.      *)
(* Rust orders None below every Some(_).                                   *)
(***************************************************************************)
None == <<>>
Some(x) == <<x>>
IsSome(o) == o # <<>>
OptGT(a, b) ==
    IF a = None THEN FALSE
    ELSE IF b = None THEN TRUE
    ELSE a[1] > b[1]

Range(s) == {s[i] : i \in 1..Len(s)}

(***************************************************************************)
(* Identifiers.  A ULID is a fixed-length string; it is modelled as a      *)
(* tuple of characters so that the suffix match of search_using_ulid is    *)
(* computed, not assumed.  UlidSeq lists the identifiers in the order of   *)
(* the primary-key index.                                                  *)
(***************************************************************************)
UlidSeq == << <<"a", "z">>, <<"b", "z">> >>
Ulids == Range(UlidSeq)

\* The ulid column is TEXT and save stores the string it is given: POST
\* /tasks/ and the fixtures of the tests store shorter identifiers (the
\* tests use "8vag").  KeySeq lists every identifier a store may hold, in
\* index order.
ShortUlid == <<"z">>
\* a fresh identifier, for the next occurrence of a task that recurs
NewUlid == <<"c", "y">>
KeySeq == UlidSeq \o <<NewUlid, ShortUlid>>
Keys == Range(KeySeq)

Stores == {"self", "other"}
Peer(s) == IF s = "self" THEN "other" ELSE "self"

(***************************************************************************)
(* Tags.  TagSeq lists the tag strings in the BINARY collation order of    *)
(* the index on (task_ulid, tag).  One tag holds a comma.                  *)
(***************************************************************************)
TagSeq == <<"meeting", "meeting,work", "work">>
Tags == Range(TagSeq)

\* x.split(',') of one tag string
SplitComma(tag) ==
    IF tag = "meeting,work" THEN <<"meeting", "work">> ELSE <<tag>>

RECURSIVE Flatten(_)
Flatten(ss) == IF ss = <<>> THEN <<>> ELSE Head(ss) \o Flatten(Tail(ss))

(***************************************************************************)
(* The clock.  A timestamp is a tick; DayOf is its calendar date.  The     *)
(* text comparison  modified_utc > 'YYYY-MM-DD'  holds for every time of   *)
(* that date and of later dates.                                           *)
(***************************************************************************)
DayOf(t) == t \div TicksPerDay
AfterDate(ts, day) == DayOf(ts) >= day

\* WHERE modified_utc > '{date}' OR modified_utc IS NULL
InWindow(modified, day) ==
    modified = None \/ AfterDate(modified[1], day)

(***************************************************************************)
(* struct Task                                                             *)
(***************************************************************************)
Task(id, text, modified, ready, due, closed, recur, prio, owner, meta, labels) ==
    [ulid |-> id, body |-> text, modified_utc |-> modified,
     ready_utc |-> ready, due_utc |-> due, closed_utc |-> closed,
     recurrence_duration |-> recur, priority_adjustment |-> prio,
     user |-> owner, metadata |-> meta, tags |-> labels]

\* Task { modified_utc: None, ..t.clone() }
Clean(t) == [t EXCEPT !.modified_utc = None]

\* Task::default() with the given identifier
DefaultTask(ulid) ==
    Task(ulid, "", None, None, None, None, None, None, Some("rookie"), None, None)

(***************************************************************************)
(* The database of one store.                                              *)
(*   tasks         : ulid (primary key) -> the other columns of the row    *)
(*   task_to_tag   : the rows <<task_ulid, tag, k>>.  The synthetic key of *)
(*                   a row is a fresh ULID and never collides; k, the      *)
(*                   serial number of the row among the rows of the same   *)
(*                   task and tag, stands for it                           *)
(*   deleted_tasks : task_ulid (primary key) -> modified_utc               *)
(***************************************************************************)
Put(f, k, v) == [x \in (DOMAIN f) \cup {k} |-> IF x = k THEN v ELSE f[x]]
Drop(f, k) == [x \in (DOMAIN f) \ {k} |-> f[x]]

Row(t, modified) ==
    [body |-> t.body, modified_utc |-> modified, ready_utc |-> t.ready_utc,
     due_utc |-> t.due_utc, closed_utc |-> t.closed_utc,
     recurrence_duration |-> t.recurrence_duration,
     priority_adjustment |-> t.priority_adjustment,
     user |-> t.user, metadata |-> t.metadata]

EmptyDb == [tasks |-> <<>>, task_to_tag |-> {}, deleted_tasks |-> <<>>]

\* get_utc_now_db_str()
get_utc_now_db_str(clock) == Some(clock)

\* The result of a call: the database it leaves and how it returned:
\* "ok" (Ok), "err" (Err) or "panic" (an unwrap on an Err).
Result(d, how) == [db |-> d, res |-> how]

\* the rows of task_to_tag that associate the task with the tag
TagRows(rows, ulid, tag) == {r \in rows : r[1] = ulid /\ r[2] = tag}

\* the row an INSERT INTO task_to_tag adds: its key is a fresh ULID
NewTagRow(rows, ulid, tag) == <<ulid, tag, Cardinality(TagRows(rows, ulid, tag)) + 1>>

\* Faulty variant of InsertTag: no UNIQUE(task_ulid, tag), every insert
\* adds a row.
InsertTagAlways(rows, ulid, tag) ==
    rows \cup {NewTagRow(rows, ulid, tag)}

\* one INSERT INTO task_to_tag ... ON CONFLICT DO NOTHING: a row that
\* conflicts with UNIQUE(task_ulid, tag) is not inserted
InsertTag(rows, ulid, tag) ==
    IF TagRows(rows, ulid, tag) # {} THEN rows
    ELSE rows \cup {NewTagRow(rows, ulid, tag)}

\* tags.iter().for_each: one insert per element of the list, in order
RECURSIVE InsertEach(_, _, _)
InsertEach(rows, ulid, tags) ==
    IF tags = <<>> THEN rows
    ELSE InsertEach(InsertTag(rows, ulid, Head(tags)), ulid, Tail(tags))

\* INSERT INTO task_to_tag ... ON CONFLICT DO NOTHING, once per element of
\* task.tags, each result unwrapped.  With foreign keys enforced the insert
\* of a tag of an identifier that has no row in tasks fails.
InsertTags(d, t, fkeys) ==
    IF t.tags = None \/ t.tags[1] = <<>> THEN Result(d, "ok")
    ELSE IF fkeys /\ t.ulid \notin DOMAIN d.tasks THEN Result(d, "panic")
    ELSE Result([d EXCEPT !.task_to_tag = InsertEach(@, t.ulid, t.tags[1])], "ok")

\* DELETE FROM task_to_tag WHERE task_ulid = ?
DropTags(d, ulid) ==
    [d EXCEPT !.task_to_tag = {r \in @ : r[1] # ulid}]

HasTagRows(d, ulid) == \E r \in d.task_to_tag : r[1] = ulid

\* Faulty variant of save: INSERT OR REPLACE, an existing row is overwritten.
saveReplaces(d, t, clock, fkeys) ==
    InsertTags([d EXCEPT !.tasks = Put(@, t.ulid, Row(t, get_utc_now_db_str(clock)))], t, fkeys)

\* SQLiteStorage::save
save(d, t, clock, fkeys) ==
    IF t.ulid \in DOMAIN d.tasks
    THEN Result(d, "err")
    ELSE InsertTags([d EXCEPT !.tasks = Put(@, t.ulid, Row(t, get_utc_now_db_str(clock)))], t, fkeys)

\* SELECT count(*) FROM tasks_view where ulid = '{ulid}'
count_tasks(d, ulid) == IF ulid \in DOMAIN d.tasks THEN 1 ELSE 0

\* Faulty variant of delete: the row and its tags go, no tombstone is written.
deleteNoTombstone(d, t, clock, fkeys) ==
    IF t.ulid \notin DOMAIN d.tasks THEN Result(d, "err")
    ELSE Result(DropTags([d EXCEPT !.tasks = Drop(@, t.ulid)], t.ulid), "ok")

\* Faulty variant of delete: INSERT OR REPLACE INTO deleted_tasks, the
\* tombstone of an identifier that has one is written again.
deleteRestamps(d, t, clock, fkeys) ==
    IF count_tasks(d, t.ulid) = 0 THEN Result(d, "err")
    ELSE IF fkeys /\ HasTagRows(d, t.ulid) THEN Result(d, "err")
    ELSE Result(DropTags([d EXCEPT !.tasks = Drop(@, t.ulid),
                                   !.deleted_tasks = Put(@, t.ulid, get_utc_now_db_str(clock))],
                         t.ulid), "ok")

\* Faulty variant of delete: the count of lines 87-90 is not taken, so the
\* statements run for an identifier that has no row.
deleteUnchecked(d, t, clock, fkeys) ==
    IF fkeys /\ HasTagRows(d, t.ulid) /\ t.ulid \in DOMAIN d.tasks THEN Result(d, "err")
    ELSE LET d1 == [d EXCEPT !.tasks = Drop(@, t.ulid)] IN
         IF t.ulid \in DOMAIN d1.deleted_tasks THEN Result(d1, "err")
         ELSE Result(DropTags([d1 EXCEPT !.deleted_tasks = Put(@, t.ulid, get_utc_now_db_str(clock))], t.ulid), "ok")

\* SQLiteStorage::delete
delete(d, t, clock, fkeys) ==
    IF count_tasks(d, t.ulid) = 0 THEN Result(d, "err")
    \* DELETE FROM tasks: refused while tag rows reference the row
    ELSE IF fkeys /\ HasTagRows(d, t.ulid) THEN Result(d, "err")
    ELSE LET d1 == [d EXCEPT !.tasks = Drop(@, t.ulid)] IN
         \* INSERT INTO deleted_tasks: task_ulid is the primary key
         IF t.ulid \in DOMAIN d1.deleted_tasks THEN Result(d1, "err")
         ELSE Result(DropTags([d1 EXCEPT !.deleted_tasks = Put(@, t.ulid, get_utc_now_db_str(clock))], t.ulid), "ok")

\* Faulty variant of update: the tag rows of the task are not deleted
\* before the new ones are inserted.
updateKeepsTags(d, t, clock, fkeys) ==
    LET d1 == IF t.ulid \in DOMAIN d.tasks
              THEN [d EXCEPT !.tasks[t.ulid] = Row(t, get_utc_now_db_str(clock))]
              ELSE d
    IN  InsertTags(d1, t, fkeys)

\* SQLiteStorage::update
update(d, t, clock, fkeys) ==
    LET d1 == IF t.ulid \in DOMAIN d.tasks
              THEN [d EXCEPT !.tasks[t.ulid] = Row(t, get_utc_now_db_str(clock))]
              ELSE d
    IN  InsertTags(DropTags(d1, t.ulid), t, fkeys)

(***************************************************************************)
(* Reads go through tasks_view.                                            *)
(***************************************************************************)
\* group_concat(distinct task_to_tag.tag), then x.split(',')
ViewTags(d, ulid) ==
    LET own == {x \in Tags : TagRows(d.task_to_tag, ulid, x) # {}}
        ordered == SelectSeq(TagSeq, LAMBDA x : x \in own)
    IN  IF own = {} THEN None
        ELSE Some(Flatten([i \in 1..Len(ordered) |-> SplitComma(ordered[i])]))

\* the Task built from one row of the view
ViewTask(d, ulid) ==
    LET r == d.tasks[ulid] IN
    Task(ulid, r.body, r.modified_utc, r.ready_utc, r.due_utc, r.closed_utc,
         r.recurrence_duration, None, r.user, r.metadata, ViewTags(d, ulid))

\* SQLiteStorage::get_tasks: the rows whose identifier is in `matching`,
\* in the order of the view (GROUP BY tasks.ulid)
get_tasks(d, matching) ==
    LET hit == SelectSeq(KeySeq, LAMBDA u : u \in DOMAIN d.tasks /\ u \in matching)
    IN  [i \in 1..Len(hit) |-> ViewTask(d, hit[i])]

\* ulid LIKE '%{pattern}'
Like(ulid, pattern) ==
    /\ Len(pattern) <= Len(ulid)
    /\ SubSeq(ulid, Len(ulid) - Len(pattern) + 1, Len(ulid)) = pattern

\* SQLiteStorage::search_using_ulid
search_using_ulid(d, pattern) ==
    get_tasks(d, {u \in Keys : Like(u, pattern)})

\* Faulty variant of unsafe_query: the WHERE clause of sync is left out
unsafe_queryAll(d, day) == get_tasks(d, DOMAIN d.tasks)

\* SQLiteStorage::unsafe_query with the clause of sync:
\* WHERE modified_utc > '{date}' OR modified_utc IS NULL
unsafe_query(d, day) ==
    get_tasks(d, {u \in DOMAIN d.tasks : InWindow(d.tasks[u].modified_utc, day)})

\* Faulty variant of deleted_ulids: the cutoff date itself is left out.
deleted_ulidsStrict(d, n_days, clock) ==
    LET check_date == DayOf(clock) - n_days IN
    {u \in DOMAIN d.deleted_tasks :
        d.deleted_tasks[u] = None \/ DayOf(d.deleted_tasks[u][1]) > check_date}

\* Faulty variant of deleted_ulids: the IS NULL clause is left out.
deleted_ulidsNoNull(d, n_days, clock) ==
    LET check_date == DayOf(clock) - n_days IN
    {u \in DOMAIN d.deleted_tasks :
        d.deleted_tasks[u] # None /\ AfterDate(d.deleted_tasks[u][1], check_date)}

\* SQLiteStorage::deleted_ulids
deleted_ulids(d, n_days, clock) ==
    LET check_date == DayOf(clock) - n_days IN
    {u \in DOMAIN d.deleted_tasks : InWindow(d.deleted_tasks[u], check_date)}

\* create_tasks_hashmap
create_tasks_hashmap(tasks) ==
    [u \in {tasks[i].ulid : i \in 1..Len(tasks)} |->
        (CHOOSE t \in Range(tasks) : t.ulid = u)]

(***************************************************************************)
(* The tasks a client hands to save and update.  modified_utc of the       *)
(* argument is never read by save or update.                               *)
(***************************************************************************)
\* "rust_tasks add" of a plain body
PlainTask(ulid) == [DefaultTask(ulid) EXCEPT !.body = "plain"]

\* "rust_tasks add body +meeting +work p:1 due:... recur:P1D": the words are
\* read last to first, so the tags arrive as <<"work", "meeting">>
RichTask(ulid) ==
    Task(ulid, "rich", None, None, Some("2023-08-06 18:47:09"), None, Some("P1D"),
         Some(1), Some("rookie"), None, Some(<<"work", "meeting">>))

SyncInputs(ulid) == {PlainTask(ulid), RichTask(ulid)}

\* tags in index order, a due date and a recurrence rule, no priority
\* (the task of tests::task_saved_to_db_with_tags)
TaggedTask(ulid) ==
    Task(ulid, "tagged", None, None, Some("2023-08-06 18:47:09"), None, Some("P1D"),
         None, Some("rookie"), None, Some(<<"meeting", "work">>))

\* "rust_tasks add body p:1"
PriorityTask(ulid) == [PlainTask(ulid) EXCEPT !.priority_adjustment = Some(1)]

\* "rust_tasks add body +work +work": the same tag twice
DupTask(ulid) == [PlainTask(ulid) EXCEPT !.tags = Some(<<"work", "work">>)]

\* a tag that holds a comma (PATCH /tasks/:ulid takes any tag string)
CommaTask(ulid) == [PlainTask(ulid) EXCEPT !.tags = Some(<<"meeting,work">>)]

StoreInputs(ulid) ==
    SyncInputs(ulid) \cup {TaggedTask(ulid), PriorityTask(ulid), DupTask(ulid), CommaTask(ulid)}

(***************************************************************************)
(* State.                                                                  *)
(***************************************************************************)
VARIABLES
    foreign_keys,   \* whether the SQLite build enforces FOREIGN KEY clauses
    now,            \* the clock
    db,             \* db[s]: the database of store s
    nops,           \* number of client calls made so far
    last,           \* the last client call and how it returned
    first_op,       \* when the first client call was made
    sync,           \* the position and locals of self.sync(other, n_days)
    pre,            \* db as it was when the running (or last) pass started
    shared_state,   \* the Mutex around the AppState of tasks_server
    handlers        \* handlers[h]: the request handler h of tasks_server runs

vars == <<foreign_keys, now, db, nops, last, first_op, sync, pre, shared_state, handlers>>

NoCall == [op |-> "none"]
Call(o, s, t, how) == [res |-> how, op |-> o, store |-> s, task |-> t]
\* a client call, with the time it was made
ClientCall(o, s, t, how, when) ==
    [res |-> how, op |-> o, store |-> s, task |-> t, at |-> when]

NDays == {0, 1}

\* a timestamp of an earlier date than every date the clock shows
OldTime == Some(0)
StartNow == TicksPerDay

\* The stores both start from the same data (get_sqlite_storage of the
\* tests): nothing, a legacy row without modified_utc that has two tags,
\* a row last modified on an earlier date, or such a row with a tombstone.
LegacyDb ==
    [tasks |-> Put(<<>>, UlidSeq[1], Row(PlainTask(UlidSeq[1]), None)),
     task_to_tag |-> {<<UlidSeq[1], "work", 1>>, <<UlidSeq[1], "meeting", 1>>},
     deleted_tasks |-> <<>>]
OldDb ==
    [tasks |-> Put(<<>>, UlidSeq[1], Row(PlainTask(UlidSeq[1]), OldTime)),
     task_to_tag |-> {},
     deleted_tasks |-> <<>>]
\* a row that was deleted and saved again on an earlier date: it is live and
\* has a tombstone
ReaddedDb ==
    [tasks |-> Put(<<>>, UlidSeq[1], Row(PlainTask(UlidSeq[1]), OldTime)),
     task_to_tag |-> {},
     deleted_tasks |-> Put(<<>>, UlidSeq[1], OldTime)]
InitialDbs == {EmptyDb, LegacyDb, OldDb, ReaddedDb}

IdleSync ==
    [n_days |-> 0, date |-> 0, pc |-> "idle", pass |-> "none",
     self_deleted |-> {}, other_deleted |-> {}, todo |-> {},
     self_map |-> <<>>, other_map |-> <<>>,
     calls |-> <<>>, first_ok |-> FALSE, prev_date |-> 0, origin |-> <<>>]

\* Mutex::new(AppState { .. }): nobody holds it and it is not poisoned
NewMutex == [holder |-> None, poisoned |-> FALSE]

\* the tasks of the runtime that run a handler each
Handlers == 1..MaxHandlers

\* a handler that runs no request
IdleHandler ==
    [ulid |-> None, res |-> "none", op |-> "none", task |-> None, pc |-> "idle",
     todo |-> <<>>, relevant_tags |-> <<>>, start |-> None]

Init ==
    /\ foreign_keys \in BOOLEAN
    /\ now = StartNow
    /\ \E d \in InitialDbs : db = [s \in Stores |-> d]
    /\ nops = 0
    /\ last = NoCall
    /\ first_op = None
    /\ sync = IdleSync
    /\ pre = db
    /\ shared_state = NewMutex
    /\ handlers = [h \in Handlers |-> IdleHandler]

\* no pass of sync has started
Quiet == sync.pc = "idle"

(***************************************************************************)
(* Client calls on one store, outside a sync pass.                         *)
(***************************************************************************)
Apply(op, s, t, r) ==
    /\ db' = [db EXCEPT ![s] = r.db]
    /\ last' = ClientCall(op, s, t, r.res, now)
    /\ nops' = nops + 1
    /\ first_op' = IF first_op = None THEN Some(now) ELSE first_op
    /\ UNCHANGED sync
    /\ UNCHANGED <<shared_state, handlers, foreign_keys, now, pre>>

ClientSave(s, t) ==
    /\ Quiet /\ nops < MaxOps
    /\ Apply("save", s, t, save(db[s], t, now, foreign_keys))

ClientUpdate(s, t) ==
    /\ Quiet /\ nops < MaxOps
    /\ Apply("update", s, t, update(db[s], t, now, foreign_keys))

ClientDelete(s, t) ==
    /\ Quiet /\ nops < MaxOps
    /\ Apply("delete", s, t, delete(db[s], t, now, foreign_keys))

\* the clock advances
Tick ==
    /\ now < MaxNow
    /\ now' = now + 1
    /\ UNCHANGED <<shared_state, handlers, foreign_keys, db, nops, last, first_op, sync, pre>>

(***************************************************************************)
(* SQLiteStorage::sync, called on "self" with task_storage = "other".      *)
(* One step is one iteration of one of its loops; the iteration order of   *)
(* a HashSet or of the keys of a HashMap is arbitrary.  sync.calls lists   *)
(* the save, update and delete calls the pass has made.                    *)
(***************************************************************************)
\* Faulty variant of After: the Err is dropped and the pass goes on.
AfterContinues(res, pc) == pc

\* how a `?` or an unwrap leaves the pass
After(res, pc) == IF res = "ok" THEN pc ELSE "failed"

\* lines 197-199 and 333-334: the cutoff date and both tombstone sets
Begin(n) ==
    /\ sync' = [n_days |-> n, date |-> DayOf(now) - n,
                pc |-> "del_self",
                pass |-> IF sync.pass = "none" THEN "first" ELSE "second",
                self_deleted |-> deleted_ulids(db["self"], n, now),
                other_deleted |-> deleted_ulids(db["other"], n, now),
                todo |-> deleted_ulids(db["self"], n, now),
                self_map |-> <<>>, other_map |-> <<>>, calls |-> <<>>,
                first_ok |-> (sync.pc = "done"),
                prev_date |-> sync.date,
                origin |-> IF sync.pass = "none" THEN db ELSE sync.origin]
    /\ pre' = db
    /\ last' = NoCall
    /\ UNCHANGED <<shared_state, handlers, foreign_keys, now, db, nops, first_op>>

\* "rust_tasks sync n": the first pass
SyncStart(n) == Quiet /\ Begin(n)

\* sync is run again after a pass returned, with no client call in between
SyncAgain(n) == sync.pc \in {"done", "failed"} /\ sync.pass = "first" /\ Begin(n)

\* Faulty variant of DeleteRound: the tombstone is read and nothing is
\* deleted.
DeleteRoundSkip(u, on, known) ==
    /\ sync' = [sync EXCEPT !.todo = @ \ {u}]
    /\ UNCHANGED db

\* sync_deleted: one round of a loop over one side's tombstones, which
\* deletes on store `on` unless `on` has the tombstone too (`known`)
DeleteRound(u, on, known) ==
    LET exists == search_using_ulid(db[on], u)
        r == delete(db[on], exists[1], now, foreign_keys)
    IN  IF u \in known \/ Len(exists) = 0
        THEN /\ sync' = [sync EXCEPT !.todo = @ \ {u}]
             /\ UNCHANGED db
        ELSE /\ db' = [db EXCEPT ![on] = r.db]
             /\ sync' = [sync EXCEPT !.todo = @ \ {u},
                                     !.calls = Append(@, Call("delete", on, exists[1], r.res)),
                                     !.pc = After(r.res, @)]

\* lines 336-344
SyncDelSelf ==
    /\ sync.pc = "del_self"
    /\ \E u \in sync.todo : DeleteRound(u, "other", sync.other_deleted)
    /\ UNCHANGED <<shared_state, handlers, foreign_keys, now, nops, last, first_op, pre>>

\* the first loop of sync_deleted is over
SyncDelSelfEnd ==
    /\ sync.pc = "del_self" /\ sync.todo = {}
    /\ sync' = [sync EXCEPT !.pc = "del_other", !.todo = sync.other_deleted]
    /\ UNCHANGED <<shared_state, handlers, foreign_keys, now, db, nops, last, first_op, pre>>

\* lines 346-354
SyncDelOther ==
    /\ sync.pc = "del_other"
    /\ \E u \in sync.todo : DeleteRound(u, "self", sync.self_deleted)
    /\ UNCHANGED <<shared_state, handlers, foreign_keys, now, nops, last, first_op, pre>>

\* lines 200-204: sync_deleted returned Ok; fetch both change windows
SyncFetch ==
    /\ sync.pc = "del_other" /\ sync.todo = {}
    /\ LET self_map == create_tasks_hashmap(unsafe_query(db["self"], sync.date))
           other_map == create_tasks_hashmap(unsafe_query(db["other"], sync.date))
       IN  sync' = [sync EXCEPT !.pc = "loop_self", !.self_map = self_map,
                                !.other_map = other_map, !.todo = DOMAIN self_map]
    /\ UNCHANGED <<shared_state, handlers, foreign_keys, now, db, nops, last, first_op, pre>>

\* Faulty variant of lines 214-218: the Err of save is returned as it is
save_or_updateNoFallback(on, t) ==
    LET r == save(db[on], t, now, foreign_keys)
    IN  [db |-> r.db, res |-> r.res, calls |-> <<Call("save", on, t, r.res)>>]

\* save, and update when the save returned an error (lines 214-218, 251-255)
save_or_update(on, t) ==
    LET r == save(db[on], t, now, foreign_keys)
        r2 == update(r.db, t, now, foreign_keys)
    IN  IF r.res = "err"
        THEN [db |-> r2.db, res |-> r2.res,
              calls |-> <<Call("save", on, t, "err"), Call("update", on, t, r2.res)>>]
        ELSE [db |-> r.db, res |-> r.res, calls |-> <<Call("save", on, t, r.res)>>]

\* Faulty variants of the comparison of line 233: the older record wins;
\* equal timestamps overwrite the local side.
LoserReversed(self_task, other) ==
    IF OptGT(self_task.modified_utc, other.modified_utc) THEN "self" ELSE "other"
LoserTieToSelf(self_task, other) ==
    IF OptGT(self_task.modified_utc, other.modified_utc) THEN "other" ELSE "self"

\* the side the both-sides branch overwrites (line 233)
Loser(self_task, other) ==
    IF OptGT(other.modified_utc, self_task.modified_utc) THEN "self" ELSE "other"

\* lines 208-244: one key of self_map
SyncLoopSelf ==
    /\ sync.pc = "loop_self"
    /\ \E k \in sync.todo :
        LET self_task == sync.self_map[k] IN
        IF k \notin DOMAIN sync.other_map
        THEN LET r == save_or_update("other", self_task) IN
             /\ db' = [db EXCEPT !["other"] = r.db]
             /\ sync' = [sync EXCEPT !.todo = @ \ {k}, !.calls = @ \o r.calls,
                                     !.pc = After(r.res, @)]
        ELSE LET other == sync.other_map[k]
                 on == Loser(self_task, other)
                 t == IF on = "self" THEN other ELSE self_task
                 r == update(db[on], t, now, foreign_keys)
             IN  IF other # self_task /\ Clean(self_task) # Clean(other)
                 THEN /\ db' = [db EXCEPT ![on] = r.db]
                      /\ sync' = [sync EXCEPT !.todo = @ \ {k},
                                              !.calls = Append(@, Call("update", on, t, r.res)),
                                              !.pc = After(r.res, @)]
                 ELSE /\ sync' = [sync EXCEPT !.todo = @ \ {k}]
                      /\ UNCHANGED db
    /\ UNCHANGED <<shared_state, handlers, foreign_keys, now, nops, last, first_op, pre>>

\* line 246: the loop over self_map is over
SyncLoopSelfEnd ==
    /\ sync.pc = "loop_self" /\ sync.todo = {}
    /\ sync' = [sync EXCEPT !.pc = "loop_other", !.todo = DOMAIN sync.other_map]
    /\ UNCHANGED <<shared_state, handlers, foreign_keys, now, db, nops, last, first_op, pre>>

\* lines 247-257: one key of other_map
SyncLoopOther ==
    /\ sync.pc = "loop_other"
    /\ \E k \in sync.todo :
        IF k \notin DOMAIN sync.self_map
        THEN LET r == save_or_update("self", sync.other_map[k]) IN
             /\ db' = [db EXCEPT !["self"] = r.db]
             /\ sync' = [sync EXCEPT !.todo = @ \ {k}, !.calls = @ \o r.calls,
                                     !.pc = After(r.res, @)]
        ELSE /\ sync' = [sync EXCEPT !.todo = @ \ {k}]
             /\ UNCHANGED db
    /\ UNCHANGED <<shared_state, handlers, foreign_keys, now, nops, last, first_op, pre>>

\* lines 258-263: the summary is printed and sync returns Ok
SyncDone ==
    /\ sync.pc = "loop_other" /\ sync.todo = {}
    /\ sync' = [sync EXCEPT !.pc = "done"]
    /\ UNCHANGED <<shared_state, handlers, foreign_keys, now, db, nops, last, first_op, pre>>

SyncStep ==
    \/ SyncDelSelf \/ SyncDelSelfEnd \/ SyncDelOther \/ SyncFetch
    \/ SyncLoopSelf \/ SyncLoopSelfEnd \/ SyncLoopOther \/ SyncDone

Next ==
    \/ \E s \in Stores, u \in Ulids : \E t \in SyncInputs(u) : ClientSave(s, t)
    \/ \E s \in Stores, u \in Ulids : \E t \in SyncInputs(u) : ClientUpdate(s, t)
    \/ \E s \in Stores, u \in Ulids : ClientDelete(s, DefaultTask(u))
    \/ Tick
    \/ \E n \in NDays : SyncStart(n)
    \/ SyncStep

Spec == Init /\ [][Next]_vars

(***************************************************************************)
(* One store alone: calls of save, update and delete on "self", with a     *)
(* wider choice of tasks, and no sync.                                     *)
(***************************************************************************)
StoreApply(op, t, r) ==
    /\ nops < MaxCalls
    /\ db' = [db EXCEPT !["self"] = r.db]
    /\ last' = ClientCall(op, "self", t, r.res, now)
    /\ nops' = nops + 1
    /\ UNCHANGED <<shared_state, handlers, foreign_keys, now, first_op, sync, pre>>

StoreSave(t) == StoreApply("save", t, save(db["self"], t, now, foreign_keys))

StoreUpdate(t) == StoreApply("update", t, update(db["self"], t, now, foreign_keys))

StoreDelete(t) == StoreApply("delete", t, delete(db["self"], t, now, foreign_keys))

StoreNext ==
    \/ \E u \in Ulids : \E t \in StoreInputs(u) : StoreSave(t)
    \/ \E u \in Ulids : \E t \in StoreInputs(u) : StoreUpdate(t)
    \/ \E u \in Ulids : StoreDelete(DefaultTask(u))
    \/ Tick

StoreSpec == Init /\ [][StoreNext]_vars

(***************************************************************************)
(* The remote-API backend.  "self" is the database of the server; every    *)
(* call of APIStorage is a request to a handler of tasks_server, which     *)
(* holds the lock on the storage for the whole request.  A task travels as *)
(* its serde JSON form, which holds every field of the Task.               *)
(***************************************************************************)
\* POST /tasks/
save_task(d, task, clock, fkeys) == save(d, task, clock, fkeys)

\* GET /tasks/search?ulid=
search_tasks(d, ulid) == search_using_ulid(d, ulid)

\* DELETE /tasks/:ulid
delete_task(d, ulid, clock, fkeys) ==
    LET tasks == search_using_ulid(d, ulid) IN
    IF Len(tasks) # 1 THEN Result(d, "err")
    ELSE delete(d, tasks[1], clock, fkeys)

\* APIStorage::delete.  A response with a status other than success is an
\* Err of the call (api_error_report).
APIStorage_delete(d, task, clock, fkeys) ==
    LET remote_task == search_tasks(d, task.ulid)
        r == IF Len(remote_task) = 0
             THEN save_task(d, task, clock, fkeys)
             ELSE Result(d, "ok")
    IN  IF r.res # "ok" THEN Result(r.db, "err")
        ELSE delete_task(r.db, task.ulid, clock, fkeys)

\* the tasks a client hands to APIStorage::delete
ApiInputs(ulid) == {DefaultTask(ulid), TaggedTask(ulid)}

ApiDelete(t) ==
    StoreApply("api_delete", t, APIStorage_delete(db["self"], t, now, foreign_keys))

\* APIStorage::sync: todo!()
APIStorage_sync(d, n_days) == Result(d, "panic")

\* "rust_tasks sync" with the remote-API backend as the storage engine
ApiSync(n) == StoreApply("api_sync", None, APIStorage_sync(db["self"], n))

\* The routes of app: a method and the segments of a path, ":" for a
\* segment that is a parameter; a path that ends in "/" has an empty last
\* segment.
Routes ==
    {<<"GET", <<"">>, "root">>,
     <<"GET", <<"health">>, "get_health">>,
     <<"GET", <<"tasks", "">>, "get_tasks">>,
     <<"POST", <<"tasks", "">>, "save_task">>,
     <<"PATCH", <<"tasks", ":">>, "patch_task">>,
     <<"DELETE", <<"tasks", ":">>, "delete_task">>,
     <<"GET", <<"tasks", "search">>, "search_tasks">>,
     <<"GET", <<"tasks", "next", ":">>, "get_next_tasks">>,
     <<"GET", <<"tasks", "unsafe_query", "">>, "get_unsafe_query_tasks">>,
     <<"GET", <<"tasks", "summarize_day", "">>, "get_day_summary">>}

\* the path has the segments of the pattern, any text for a parameter
Matches(pattern, path) ==
    /\ Len(pattern) = Len(path)
    /\ \A i \in 1..Len(pattern) : pattern[i] = ":" \/ pattern[i] = path[i]

\* the handlers the Router finds for the request: none is 404 Not Found
Routed(method, path) ==
    {r[3] : r \in {x \in Routes : x[1] = method /\ Matches(x[2], path)}}

\* APIStorage::deleted_ulids: GET {uri}/tasks/deleted_ulids/{n_days}; a
\* status other than success is an Err (api_error_report)
APIStorage_deleted_ulids(d, n_days, clock) ==
    IF Routed("GET", <<"tasks", "deleted_ulids", ToString(n_days)>>) = {}
    THEN [res |-> "err", ulids |-> {}]
    ELSE [res |-> "ok", ulids |-> deleted_ulids(d, n_days, clock)]

\* a client calls deleted_ulids(&n) on the remote-API backend
ApiDeletedUlids(n) ==
    /\ LET r == APIStorage_deleted_ulids(db["self"], n, now) IN
        last' = [res |-> r.res, op |-> "api_deleted_ulids", store |-> "self", at |-> now,
                 count |-> n, out |-> r.ulids]
    /\ UNCHANGED <<shared_state, handlers, foreign_keys, now, db, nops, first_op, sync, pre>>

ApiNext ==
    \/ StoreNext
    \/ \E u \in Ulids : \E t \in ApiInputs(u) : ApiDelete(t)
    \/ \E n \in NDays : ApiSync(n)
    \/ \E n \in NDays : ApiDeletedUlids(n)

ApiSpec == Init /\ [][ApiNext]_vars

(***************************************************************************)
(* tasks_server.  The runtime runs the handlers of concurrent requests on   *)
(* its worker threads; a handler takes state.lock().unwrap() first and the  *)
(* guard lives until the handler returns or unwinds.  One step of a handler *)
(* is one SQL statement of its storage call.  A handler that panics while   *)
(* it holds the guard poisons the Mutex; lock() on a poisoned Mutex is an   *)
(* Err, which the unwrap turns into a panic of the handler that asked.      *)
(***************************************************************************)
\* {"tags": {..}} of the summary_config parameter: the keys are the tags
SummaryTags == {<<"work">>, <<"it's">>}

\* the tags whose text has a single quote: the count query built around
\* such a tag, tags LIKE '%{tag}%', is not a statement SQLite can prepare
Quoted == {"it's"}

\* a request: the handler it is routed to, the ulid of its path, the Task
\* of its body and the tags of its summary_config
Request(o, id, t, cfg) ==
    [ulid |-> id, res |-> "none", op |-> o, task |-> t, pc |-> "lock",
     todo |-> <<>>, relevant_tags |-> cfg, start |-> None]

\* the path of DELETE /tasks/:ulid is a whole identifier or the end of one
Paths == Ulids \cup {<<"z">>}

Requests ==
    {Request("save_task", None, t, <<>>) : t \in UNION {ApiInputs(u) : u \in Ulids}}
    \cup {Request("patch_task", u, t, <<>>) :
            u \in Ulids, t \in UNION {ApiInputs(v) : v \in Ulids}}
    \cup {Request("delete_task", u, None, <<>>) : u \in Paths}
    \cup {Request("get_day_summary", None, None, cfg) : cfg \in SummaryTags}

\* the first statement of the storage call of each handler
Entry(o) ==
    CASE o = "save_task" -> "insert_row"
      [] o = "patch_task" -> "update_row"
      [] o = "delete_task" -> "search"
      [] o = "get_day_summary" -> "count_tags"

\* Faulty variant of CanLock: lock() returns a guard while another handler
\* holds one.
CanLockHeld(m) == TRUE

\* Mutex::lock returns once no other guard is alive
CanLock(m) == m.holder = None

\* the handler moves to the next statement
Goto(d, r, to) == [db |-> d, h |-> [r EXCEPT !.pc = to]]
\* the storage call or the handler returns Ok or Err, or panics
Leave(d, r, how) == [db |-> d, h |-> [r EXCEPT !.res = how, !.pc = "return"]]

\* one statement of the handler r on the database d
Statement(d, r, clock, fkeys) ==
    LET t == r.task IN
    CASE r.pc = "insert_row" ->
            \* save: INSERT INTO tasks
            IF t.ulid \in DOMAIN d.tasks THEN Leave(d, r, "err")
            ELSE [db |-> [d EXCEPT !.tasks = Put(@, t.ulid, Row(t, get_utc_now_db_str(clock)))],
                  h |-> [r EXCEPT !.pc = "insert_tag",
                                  !.todo = IF t.tags = None THEN <<>> ELSE t.tags[1]]]
      [] r.pc = "update_row" ->
            \* patch_task: the ulid of the path is the ulid of the body;
            \* update: UPDATE tasks SET ... WHERE ulid = ?
            IF r.ulid # t.ulid THEN Leave(d, r, "err")
            ELSE Goto(IF t.ulid \in DOMAIN d.tasks
                      THEN [d EXCEPT !.tasks[t.ulid] = Row(t, get_utc_now_db_str(clock))]
                      ELSE d,
                      r, "drop_tags")
      [] r.pc = "drop_tags" ->
            \* DELETE FROM task_to_tag WHERE task_ulid = ?, of update and
            \* of delete
            IF r.op = "delete_task" THEN Leave(DropTags(d, t.ulid), r, "ok")
            ELSE [db |-> DropTags(d, t.ulid),
                  h |-> [r EXCEPT !.pc = "insert_tag",
                                  !.todo = IF t.tags = None THEN <<>> ELSE t.tags[1]]]
      [] r.pc = "insert_tag" ->
            \* INSERT INTO task_to_tag of the next tag, unwrapped
            IF r.todo = <<>> THEN Leave(d, r, "ok")
            ELSE IF fkeys /\ t.ulid \notin DOMAIN d.tasks THEN Leave(d, r, "panic")
            ELSE [db |-> [d EXCEPT !.task_to_tag = InsertTag(@, t.ulid, Head(r.todo))],
                  h |-> [r EXCEPT !.todo = Tail(@)]]
      [] r.pc = "search" ->
            \* delete_task: search_using_ulid(&ulid), one task is expected
            LET tasks == search_using_ulid(d, r.ulid) IN
            IF Len(tasks) # 1 THEN Leave(d, r, "err")
            ELSE [db |-> d, h |-> [r EXCEPT !.task = tasks[1], !.pc = "count"]]
      [] r.pc = "count" ->
            \* delete: count_tasks
            IF count_tasks(d, t.ulid) = 0 THEN Leave(d, r, "err")
            ELSE Goto(d, r, "delete_row")
      [] r.pc = "delete_row" ->
            \* DELETE FROM tasks WHERE ulid = ?
            IF fkeys /\ HasTagRows(d, t.ulid) /\ t.ulid \in DOMAIN d.tasks
            THEN Leave(d, r, "err")
            ELSE Goto([d EXCEPT !.tasks = Drop(@, t.ulid)], r, "insert_tombstone")
      [] r.pc = "insert_tombstone" ->
            \* INSERT INTO deleted_tasks
            IF t.ulid \in DOMAIN d.deleted_tasks THEN Leave(d, r, "err")
            ELSE Goto([d EXCEPT !.deleted_tasks = Put(@, t.ulid, get_utc_now_db_str(clock))],
                      r, "drop_tags")
      [] r.pc = "count_tags" ->
            \* summarize_day: count_tasks of each tag, .expect("Failed to
            \* run query")
            IF \E i \in 1..Len(r.relevant_tags) : r.relevant_tags[i] \in Quoted
            THEN Leave(d, r, "panic")
            ELSE Leave(d, r, "ok")

\* the pcs at which a handler holds the guard
Locked == {"insert_row", "update_row", "drop_tags", "insert_tag", "search", "count",
           "delete_row", "insert_tombstone", "count_tags", "return"}

\* a request is routed to the handler h
Receive(h, r) ==
    /\ handlers[h].pc = "idle"
    /\ nops < MaxCalls
    /\ nops' = nops + 1
    /\ handlers' = [handlers EXCEPT ![h] = r]
    /\ UNCHANGED <<shared_state, foreign_keys, now, db, last, first_op, sync, pre>>

\* state.lock().unwrap() on a Mutex that is not poisoned
Lock(h) ==
    /\ handlers[h].pc = "lock"
    /\ CanLock(shared_state)
    /\ ~shared_state.poisoned
    /\ shared_state' = [shared_state EXCEPT !.holder = Some(h)]
    /\ handlers' = [handlers EXCEPT ![h].pc = Entry(handlers[h].op),
                                    ![h].start = Some(db["self"])]
    /\ UNCHANGED <<foreign_keys, now, db, nops, last, first_op, sync, pre>>

\* state.lock().unwrap() on a poisoned Mutex: the handler panics, the
\* request gets no response
LockPoisoned(h) ==
    /\ handlers[h].pc = "lock"
    /\ CanLock(shared_state)
    /\ shared_state.poisoned
    /\ handlers' = [handlers EXCEPT ![h] = IdleHandler]
    /\ last' = [res |-> "panic", op |-> handlers[h].op, store |-> "self",
                task |-> handlers[h].task, at |-> now, served |-> FALSE]
    /\ UNCHANGED <<shared_state, foreign_keys, now, db, nops, first_op, sync, pre>>

\* the next statement of the storage call of the handler h
Step(h) ==
    /\ handlers[h].pc \in Locked \ {"return"}
    /\ LET x == Statement(db["self"], handlers[h], now, foreign_keys) IN
        /\ db' = [db EXCEPT !["self"] = x.db]
        /\ handlers' = [handlers EXCEPT ![h] = x.h]
    /\ UNCHANGED <<shared_state, foreign_keys, now, nops, last, first_op, sync, pre>>

\* the handler returns its response, or unwinds: the guard is dropped, and
\* dropped during a panic it poisons the Mutex
Return(h) ==
    /\ handlers[h].pc = "return"
    /\ shared_state' =
        [holder |-> IF shared_state.holder = Some(h) THEN None ELSE shared_state.holder,
         poisoned |-> shared_state.poisoned \/ handlers[h].res = "panic"]
    /\ handlers' = [handlers EXCEPT ![h] = IdleHandler]
    /\ last' = [res |-> handlers[h].res, op |-> handlers[h].op, store |-> "self",
                task |-> handlers[h].task, at |-> now, served |-> TRUE]
    /\ UNCHANGED <<foreign_keys, now, db, nops, first_op, sync, pre>>

ServerNext ==
    \/ \E h \in Handlers : \E r \in Requests : Receive(h, r)
    \/ \E h \in Handlers : Lock(h)
    \/ \E h \in Handlers : LockPoisoned(h)
    \/ \E h \in Handlers : Step(h)
    \/ \E h \in Handlers : Return(h)

ServerSpec == Init /\ [][ServerNext]_vars

\* the same, with a second pass
NextTwice == Next \/ \E n \in NDays : SyncAgain(n)

SpecTwice == Init /\ [][NextTwice]_vars

(***************************************************************************)
(* Calls of other clients while a pass runs.  sync opens no transaction    *)
(* and takes no lock: each of its calls is one request to the server,      *)
(* whose handler holds the mutex until it returns, or a few statements on  *)
(* the connection to the database file.  Between two of its calls another  *)
(* client is served.                                                       *)
(***************************************************************************)
\* the positions of a pass between two of its calls
Running == {"del_self", "del_other", "loop_self", "loop_other"}

\* Faulty variant: the pass holds a lock, no other client is served
ServedOutsidePass(pc) == pc \notin Running

\* whether the call of another client is served at this position of sync
Served(pc) == TRUE

\* a call of another client during the pass; nth is the number of calls the
\* pass had made, fetched whether it had read its two change windows
RaceApply(op, s, t, r) ==
    /\ sync.pc \in Running /\ Served(sync.pc) /\ nops < MaxOps
    /\ db' = [db EXCEPT ![s] = r.db]
    /\ last' = [res |-> r.res, op |-> op, store |-> s, task |-> t, at |-> now,
                nth |-> Len(sync.calls),
                fetched |-> sync.pc \in {"loop_self", "loop_other"}]
    /\ nops' = nops + 1
    /\ first_op' = IF first_op = None THEN Some(now) ELSE first_op
    /\ UNCHANGED <<shared_state, handlers, foreign_keys, now, sync, pre>>

RaceSave(s, t) == RaceApply("save", s, t, save(db[s], t, now, foreign_keys))
RaceUpdate(s, t) == RaceApply("update", s, t, update(db[s], t, now, foreign_keys))
RaceDelete(s, t) == RaceApply("delete", s, t, delete(db[s], t, now, foreign_keys))

RaceNext ==
    \/ Next
    \/ \E s \in Stores, u \in Ulids : \E t \in SyncInputs(u) : RaceSave(s, t)
    \/ \E s \in Stores, u \in Ulids : \E t \in SyncInputs(u) : RaceUpdate(s, t)
    \/ \E s \in Stores, u \in Ulids : RaceDelete(s, DefaultTask(u))

RaceSpec == Init /\ [][RaceNext]_vars

(***************************************************************************)
(* sync between stores that hold an identifier which is the end of         *)
(* another one.  Both stores start with the same rows, last modified on an *)
(* earlier date.                                                           *)
(***************************************************************************)
SuffixInit ==
    /\ foreign_keys \in BOOLEAN
    /\ now = StartNow
    /\ \E held \in SUBSET Keys :
        db = [s \in Stores |->
                [EmptyDb EXCEPT !.tasks = [u \in held |-> Row(PlainTask(u), OldTime)]]]
    /\ nops = 0
    /\ last = NoCall
    /\ first_op = None
    /\ sync = IdleSync
    /\ pre = db
    /\ shared_state = NewMutex
    /\ handlers = [h \in Handlers |-> IdleHandler]

SuffixNext ==
    \/ \E s \in Stores, u \in Keys : ClientSave(s, PlainTask(u))
    \/ \E s \in Stores, u \in Keys : ClientDelete(s, DefaultTask(u))
    \/ Tick
    \/ \E n \in NDays : SyncStart(n)
    \/ SyncStep

SuffixSpec == SuffixInit /\ [][SuffixNext]_vars

(***************************************************************************)
(* Backend errors during a pass.  A call of sync on either backend may     *)
(* return an Err that is no constraint violation: the peer cannot be       *)
(* reached, the database is busy or cannot be read.  Such a call is logged *)
(* with "down".  update and delete run their statements one by one outside *)
(* a transaction, so the Err of a later statement leaves the earlier ones  *)
(* done.  The errors are injected in the first pass.                       *)
(***************************************************************************)
\* whether a call on a backend is answered or not
Faults == {"none", "down"}

\* the pass ends on the Err of the call, which the `?` returns
Abort(o, on, t) ==
    sync' = [sync EXCEPT !.calls = Append(@, Call(o, on, t, "down")),
                         !.pc = After("down", @)]

Faulty == sync.pass = "first"

\* the databases an update that returned the Err of one of its statements
\* may leave: the UPDATE failed (lines 110-122), or it ran and the DELETE of
\* the tag rows failed (lines 123-126)
update_failed(d, t, clock) ==
    {d, IF t.ulid \in DOMAIN d.tasks
        THEN [d EXCEPT !.tasks[t.ulid] = Row(t, get_utc_now_db_str(clock))]
        ELSE d}

\* the databases a delete that returned the Err of one of its statements
\* may leave: the DELETE of the row failed (lines 91-93), or it ran and the
\* INSERT of the tombstone failed (94-97), or both ran and the DELETE of the
\* tag rows failed (98-101)
delete_failed(d, t, clock, fkeys) ==
    LET d1 == [d EXCEPT !.tasks = Drop(@, t.ulid)]
        d2 == [d1 EXCEPT !.deleted_tasks = Put(@, t.ulid, get_utc_now_db_str(clock))]
    IN  IF fkeys /\ HasTagRows(d, t.ulid) THEN {d}
        ELSE IF t.ulid \in DOMAIN d.deleted_tasks THEN {d, d1}
        ELSE {d, d1, d2}

\* lines 333-334: deleted_ulids of one side returns an Err
SyncStartDown(n, on) ==
    /\ Quiet
    /\ sync' = [n_days |-> n, date |-> DayOf(now) - n,
                pc |-> After("down", "del_self"),
                pass |-> "first",
                self_deleted |-> {}, other_deleted |-> {}, todo |-> {},
                self_map |-> <<>>, other_map |-> <<>>,
                calls |-> <<Call("deleted_ulids", on, None, "down")>>,
                first_ok |-> FALSE, prev_date |-> sync.date, origin |-> db]
    /\ pre' = db
    /\ last' = NoCall
    /\ UNCHANGED <<shared_state, handlers, foreign_keys, now, db, nops, first_op>>

\* lines 340-342 and 350-352: the search or the delete of one round of
\* sync_deleted returns an Err
SyncDelDown ==
    /\ Faulty
    /\ sync.pc \in {"del_self", "del_other"}
    /\ LET on == IF sync.pc = "del_self" THEN "other" ELSE "self"
           known == IF sync.pc = "del_self" THEN sync.other_deleted ELSE sync.self_deleted
       IN  \E u \in sync.todo \ known :
            LET exists == search_using_ulid(db[on], u) IN
            \/ Abort("search_using_ulid", on, None) /\ UNCHANGED db
            \/ /\ Len(exists) > 0
               /\ Abort("delete", on, exists[1])
               /\ \E d \in delete_failed(db[on], exists[1], now, foreign_keys) :
                    db' = [db EXCEPT ![on] = d]
    /\ UNCHANGED <<shared_state, handlers, foreign_keys, now, nops, last, first_op, pre>>

\* lines 201-202: unsafe_query of one side returns an Err
SyncFetchDown(on) ==
    /\ Faulty
    /\ sync.pc = "del_other" /\ sync.todo = {}
    /\ Abort("unsafe_query", on, None)
    /\ UNCHANGED <<shared_state, handlers, foreign_keys, now, db, nops, last, first_op, pre>>

\* lines 214-218 and 251-255 when the save returns an Err that is no
\* constraint violation: `if let Err(_e)` takes every Err, update is called
SyncSaveDown(on, t, update_fault) ==
    LET r2 == update(db[on], t, now, foreign_keys)
        how == IF update_fault = "down" THEN "down" ELSE r2.res
    IN  /\ \E d \in IF update_fault = "down" THEN update_failed(db[on], t, now)
                      ELSE {r2.db} :
                db' = [db EXCEPT ![on] = d]
        /\ sync' = [sync EXCEPT !.todo = @ \ {t.ulid},
                                !.calls = @ \o <<Call("save", on, t, "down"),
                                                 Call("update", on, t, how)>>,
                                !.pc = After(how, @)]

\* lines 208-244: a call on a backend for one key of self_map returns an Err
SyncLoopSelfDown ==
    /\ Faulty
    /\ sync.pc = "loop_self"
    /\ \E k \in sync.todo :
        LET self_task == sync.self_map[k] IN
        IF k \notin DOMAIN sync.other_map
        THEN \E update_fault \in Faults : SyncSaveDown("other", self_task, update_fault)
        ELSE LET other == sync.other_map[k]
                 on == Loser(self_task, other)
                 t == IF on = "self" THEN other ELSE self_task
             IN  /\ other # self_task /\ Clean(self_task) # Clean(other)
                 /\ Abort("update", on, t)
                 /\ \E d \in update_failed(db[on], t, now) :
                        db' = [db EXCEPT ![on] = d]
    /\ UNCHANGED <<shared_state, handlers, foreign_keys, now, nops, last, first_op, pre>>

\* lines 247-257: the save on the local store for one key of other_map
\* returns an Err
SyncLoopOtherDown ==
    /\ Faulty
    /\ sync.pc = "loop_other"
    /\ \E k \in sync.todo \ DOMAIN sync.self_map :
        \E update_fault \in Faults : SyncSaveDown("self", sync.other_map[k], update_fault)
    /\ UNCHANGED <<shared_state, handlers, foreign_keys, now, nops, last, first_op, pre>>

SyncDown ==
    \/ \E n \in NDays, on \in Stores : SyncStartDown(n, on)
    \/ SyncDelDown
    \/ \E on \in Stores : SyncFetchDown(on)
    \/ SyncLoopSelfDown
    \/ SyncLoopOtherDown

FaultNext == NextTwice \/ SyncDown

FaultSpec == Init /\ [][FaultNext]_vars

(***************************************************************************)
(* A whole pass of sync as one operation on the pair of stores D, every    *)
(* call answered.  The rounds of a loop touch one identifier each, in the  *)
(* order of UlidSeq here.  The result is the pair of stores the pass       *)
(* leaves and how it returned.                                             *)
(***************************************************************************)
\* the identifiers of a set as a list
Listed(S) == SelectSeq(UlidSeq, LAMBDA u : u \in S)

\* sync_deleted: one round (lines 337-343, 347-353)
delete_round(P, u, on, known, clock, fkeys) ==
    LET exists == search_using_ulid(P.db[on], u)
        r == delete(P.db[on], exists[1], clock, fkeys)
    IN  IF P.res # "ok" \/ u \in known \/ Len(exists) = 0 THEN P
        ELSE Result([P.db EXCEPT ![on] = r.db], r.res)

RECURSIVE delete_rounds(_, _, _, _, _, _)
delete_rounds(P, keys, on, known, clock, fkeys) ==
    IF keys = <<>> THEN P
    ELSE delete_rounds(delete_round(P, Head(keys), on, known, clock, fkeys),
                       Tail(keys), on, known, clock, fkeys)

\* save, and update when the save returned an Err (lines 214-218, 251-255)
save_else_update(P, on, t, clock, fkeys) ==
    LET r == save(P.db[on], t, clock, fkeys)
        r2 == update(r.db, t, clock, fkeys)
    IN  IF P.res # "ok" THEN P
        ELSE IF r.res = "err" THEN Result([P.db EXCEPT ![on] = r2.db], r2.res)
        ELSE Result([P.db EXCEPT ![on] = r.db], r.res)

\* lines 209-243: one key of self_map
self_round(P, k, self_map, other_map, clock, fkeys) ==
    LET self_task == self_map[k] IN
    IF P.res # "ok" THEN P
    ELSE IF k \notin DOMAIN other_map
    THEN save_else_update(P, "other", self_task, clock, fkeys)
    ELSE LET other == other_map[k]
             on == Loser(self_task, other)
             t == IF on = "self" THEN other ELSE self_task
             r == update(P.db[on], t, clock, fkeys)
         IN  IF other # self_task /\ Clean(self_task) # Clean(other)
             THEN Result([P.db EXCEPT ![on] = r.db], r.res)
             ELSE P

RECURSIVE self_rounds(_, _, _, _, _, _)
self_rounds(P, keys, self_map, other_map, clock, fkeys) ==
    IF keys = <<>> THEN P
    ELSE self_rounds(self_round(P, Head(keys), self_map, other_map, clock, fkeys),
                     Tail(keys), self_map, other_map, clock, fkeys)

\* lines 247-257: the keys of other_map that self_map has not
RECURSIVE other_rounds(_, _, _, _, _)
other_rounds(P, keys, other_map, clock, fkeys) ==
    IF keys = <<>> THEN P
    ELSE other_rounds(save_else_update(P, "self", other_map[Head(keys)], clock, fkeys),
                      Tail(keys), other_map, clock, fkeys)

\* SQLiteStorage::sync with the cutoff date `day`
sync_pass(D, day, clock, fkeys) ==
    LET self_deleted == {u \in DOMAIN D["self"].deleted_tasks :
                            InWindow(D["self"].deleted_tasks[u], day)}
        other_deleted == {u \in DOMAIN D["other"].deleted_tasks :
                            InWindow(D["other"].deleted_tasks[u], day)}
        P1 == delete_rounds(Result(D, "ok"), Listed(self_deleted), "other",
                            other_deleted, clock, fkeys)
        P2 == delete_rounds(P1, Listed(other_deleted), "self", self_deleted, clock, fkeys)
        self_map == create_tasks_hashmap(unsafe_query(P2.db["self"], day))
        other_map == create_tasks_hashmap(unsafe_query(P2.db["other"], day))
        P3 == self_rounds(P2, Listed(DOMAIN self_map), self_map, other_map, clock, fkeys)
    IN  other_rounds(P3, Listed((DOMAIN other_map) \ (DOMAIN self_map)), other_map,
                     clock, fkeys)

(***************************************************************************)
(* Recurrence: Task::next_task.  A "%Y-%m-%d %H:%M:%S" string is a tick;   *)
(* parsed, it is a calendar date and a time of day.  Date 0 is a Monday    *)
(* (2024-02-05), so date 4 is Friday 2024-02-09 and date 7 is Monday       *)
(* 2024-02-12.                                                             *)
(***************************************************************************)
WeekdaySeq == <<"Mon", "Tue", "Wed", "Thu", "Fri", "Sat", "Sun">>

\* NaiveDateTime::parse_from_str(x, "%Y-%m-%d %H:%M:%S")
parse_from_str(x) == <<x \div TicksPerDay, x % TicksPerDay>>

\* .format("%Y-%m-%d %H:%M:%S").to_string()
format(dt) == dt[1] * TicksPerDay + dt[2]

\* due_chrono.weekday()
weekday(dt) == WeekdaySeq[(dt[1] % Len(WeekdaySeq)) + 1]

\* .add(chrono_duration), the duration being a number of days
add(dt, days) == <<dt[1] + days, dt[2]>>

\* the recurrence rules of the model, and
\* duration_string.parse::<iso8601_duration::Duration>() in days
Rules == {"P1D", "P2D", "P3D", "P1W", "P1JD"}
parse(duration_string) ==
    CASE duration_string = "P1D" -> 1
      [] duration_string = "P2D" -> 2
      [] duration_string = "P3D" -> 3
      [] duration_string = "P1W" -> 7

\* x.ends_with("1JD")
ends_with_1JD(x) == x = "P1JD"

\* Faulty variant of duration_string: Friday is treated as any other day.
duration_stringNoFri(x, due_chrono) ==
    IF ends_with_1JD(x)
    THEN IF weekday(due_chrono) = "Sat" THEN "P2D" ELSE "P1D"
    ELSE x

\* Faulty variant of duration_string: Saturday is treated as any other day.
duration_stringNoSat(x, due_chrono) ==
    IF ends_with_1JD(x)
    THEN IF weekday(due_chrono) = "Fri" THEN "P3D" ELSE "P1D"
    ELSE x

\* lines 72-79
duration_string(x, due_chrono) ==
    IF ends_with_1JD(x)
    THEN CASE weekday(due_chrono) = "Fri" -> "P3D"
           [] weekday(due_chrono) = "Sat" -> "P2D"
           [] OTHER -> "P1D"
    ELSE x

\* Task::next_task; default_ulid is the identifier of Task::default().
\* The result is Ok(None), Ok(Some(new_task)) or the panic of an unwrap.
next_task(self, default_ulid) ==
    IF self.recurrence_duration = None THEN [res |-> "ok", task |-> None]
    ELSE IF self.due_utc = None THEN [res |-> "panic", task |-> None]
    ELSE LET x == self.recurrence_duration[1]
             due_chrono == parse_from_str(self.due_utc[1])
             duration == parse(duration_string(x, due_chrono))
             new_due_date == format(add(due_chrono, duration))
             new_ready_date ==
                 IF self.ready_utc = None THEN None
                 ELSE Some(format(add(parse_from_str(self.ready_utc[1]), duration)))
         IN  [res |-> "ok",
              task |-> Some([self EXCEPT !.ulid = default_ulid,
                                         !.due_utc = Some(new_due_date),
                                         !.ready_utc = new_ready_date])]

\* the tasks next_task is applied to
DueTimes == 0..((MaxDueDay + 1) * TicksPerDay - 1)
ReadyTimes == 0..(TicksPerDay + 1)
RecurInputs ==
    {Task(u, "plain", None, ready, due, None, recur, None, Some("rookie"), None, None) :
        u \in Ulids,
        ready \in {None} \cup {Some(x) : x \in ReadyTimes},
        due \in {None} \cup {Some(x) : x \in DueTimes},
        recur \in {None} \cup {Some(x) : x \in Rules}}

RecurInit ==
    /\ foreign_keys = FALSE
    /\ now = StartNow
    /\ db = [s \in Stores |-> EmptyDb]
    /\ nops = 0
    /\ \E t \in RecurInputs : last = [op |-> "arg", task |-> t]
    /\ first_op = None
    /\ sync = IdleSync
    /\ pre = db
    /\ shared_state = NewMutex
    /\ handlers = [h \in Handlers |-> IdleHandler]

\* task.next_task()
NextTask ==
    /\ last.op = "arg"
    /\ \E default_ulid \in Ulids \ {last.task.ulid} :
        last' = [res |-> next_task(last.task, default_ulid).res,
                 op |-> "next_task", task |-> last.task,
                 next |-> next_task(last.task, default_ulid).task]
    /\ UNCHANGED <<shared_state, handlers, foreign_keys, now, db, nops, first_op, sync, pre>>

RecurNext == NextTask

RecurSpec == RecurInit /\ [][RecurNext]_vars

(***************************************************************************)
(* Closing: Task::do_task on a storage.  A call on the storage runs on     *)
(* the store or, when the backend cannot be reached or cannot run the      *)
(* statement, returns an Err and leaves the store as it is.                *)
(***************************************************************************)
\* storage.save(..)? and storage.update(..)? as do_task sees them
Backend(r, d, fault) == IF fault = "down" THEN Result(d, "err") ELSE r

\* Faulty variant of close_task: the task is closed before its next
\* occurrence is saved.
close_taskFirst(d, self, clock, fkeys, default_ulid, save_fault, update_fault) ==
    LET x == next_task(self, default_ulid)
        closed == [self EXCEPT !.closed_utc = Some(clock)]
        r2 == Backend(update(d, closed, clock, fkeys), d, update_fault)
        calls2 == <<Call("update", "self", closed, r2.res)>>
        r1 == Backend(save(r2.db, x.task[1], clock, fkeys), r2.db, save_fault)
    IN  IF x.res = "panic"
        THEN [db |-> d, res |-> "panic", task |-> self, calls |-> <<>>]
        ELSE IF r2.res # "ok" \/ x.task = None
        THEN [db |-> r2.db, res |-> r2.res, task |-> closed, calls |-> calls2]
        ELSE [db |-> r1.db, res |-> r1.res, task |-> closed,
              calls |-> Append(calls2, Call("save", "self", x.task[1], r1.res))]

\* the None arm of do_task (lines 130-137)
close_task(d, self, clock, fkeys, default_ulid, save_fault, update_fault) ==
    LET x == next_task(self, default_ulid)
        r1 == IF x.task = None THEN Result(d, "ok")
              ELSE Backend(save(d, x.task[1], clock, fkeys), d, save_fault)
        calls1 == IF x.task = None THEN <<>>
                  ELSE <<Call("save", "self", x.task[1], r1.res)>>
        closed == [self EXCEPT !.closed_utc = Some(clock)]
        r2 == Backend(update(r1.db, closed, clock, fkeys), r1.db, update_fault)
    IN  IF x.res = "panic"
        THEN [db |-> d, res |-> "panic", task |-> self, calls |-> <<>>]
        ELSE IF r1.res # "ok"
        THEN [db |-> r1.db, res |-> r1.res, task |-> self, calls |-> calls1]
        ELSE [db |-> r2.db, res |-> r2.res, task |-> closed,
              calls |-> Append(calls1, Call("update", "self", closed, r2.res))]

\* Faulty variant of do_task: a closed task is closed again.
do_taskAgain(d, self, clock, fkeys, default_ulid, save_fault, update_fault) ==
    close_task(d, self, clock, fkeys, default_ulid, save_fault, update_fault)

\* Task::do_task: the store it leaves, how it returned, the task as it is
\* after the call and the calls made on the storage
do_task(d, self, clock, fkeys, default_ulid, save_fault, update_fault) ==
    IF self.closed_utc # None
    THEN [db |-> d, res |-> "ok", task |-> self, calls |-> <<>>]
    ELSE close_task(d, self, clock, fkeys, default_ulid, save_fault, update_fault)

\* the task the store of DoSpec starts with: open or closed, with or
\* without a recurrence rule, a ready time and a tag; due on a Friday or on
\* the Tuesday the clock starts on
DoInputs ==
    {Task(UlidSeq[1], "plain", None, ready, due, closed, recur, None, Some("rookie"), None, tags) :
        ready \in {None, Some(1)},
        due \in {Some(StartNow), Some(4 * TicksPerDay)},
        closed \in {None, OldTime},
        recur \in {None, Some("P1D"), Some("P1JD")},
        tags \in {None, Some(<<"work">>)}}

DoInit ==
    /\ foreign_keys \in BOOLEAN
    /\ now = StartNow
    /\ \E t \in DoInputs :
        db = [s \in Stores |-> save(EmptyDb, t, OldTime[1], foreign_keys).db]
    /\ nops = 0
    /\ last = NoCall
    /\ first_op = None
    /\ sync = IdleSync
    /\ pre = db
    /\ shared_state = NewMutex
    /\ handlers = [h \in Handlers |-> IdleHandler]

\* "rust_tasks do <ulid>" (tasks::do_task): the task is searched and
\* do_task runs on the one task found.  Ulid::new(), which next_task calls
\* for a task with a recurrence rule, is an identifier new to the store.
DoTask(u, default_ulid, save_fault, update_fault) ==
    LET tasks == search_using_ulid(db["self"], u)
        r == do_task(db["self"], tasks[1], now, foreign_keys, default_ulid,
                     save_fault, update_fault)
    IN  /\ nops < MaxCalls
        /\ Len(tasks) = 1
        /\ (tasks[1].closed_utc = None /\ tasks[1].recurrence_duration # None)
              => default_ulid \notin (DOMAIN db["self"].tasks) \cup (DOMAIN db["self"].deleted_tasks)
        /\ db' = [db EXCEPT !["self"] = r.db]
        /\ pre' = db
        /\ last' = [res |-> r.res, op |-> "do_task", store |-> "self",
                     task |-> tasks[1], at |-> now, calls |-> r.calls, done |-> r.task]
        /\ nops' = nops + 1
        /\ UNCHANGED <<shared_state, handlers, foreign_keys, now, first_op, sync>>

DoNext ==
    \/ \E u \in Ulids, default_ulid \in Ulids, save_fault \in Faults, update_fault \in Faults :
            DoTask(u, default_ulid, save_fault, update_fault)
    \/ Tick

DoSpec == DoInit /\ [][DoNext]_vars

(***************************************************************************)
(* The commands on one task, "rust_tasks do|edit|delete <ulid_suffix>",     *)
(* and the DELETE /tasks/:ulid handler of the server.  Each searches the    *)
(* store for the suffix first.                                              *)
(***************************************************************************)
\* tasks::do_task
tasks_do_task(d, ulid_suffix, clock, fkeys, default_ulid) ==
    LET tasks == search_using_ulid(d, ulid_suffix) IN
    IF Len(tasks) > 1 THEN Result(d, "err")
    ELSE IF tasks = <<>> THEN Result(d, "err")
    ELSE LET r == do_task(d, tasks[1], clock, fkeys, default_ulid, "none", "none")
         IN  Result(r.db, r.res)

\* Task::edit_with_editor: the task as the user left it in the editor
Edited(t) == [t EXCEPT !.body = "edited"]

\* edit_utils::edit_task; the editor returns the edited task or an Err
edit_task(d, ulid_suffix, clock, fkeys, editor) ==
    LET tasks == search_using_ulid(d, ulid_suffix) IN
    IF Len(tasks) > 1 THEN Result(d, "panic")
    ELSE IF tasks = <<>> THEN Result(d, "panic")
    ELSE IF editor # "ok" THEN Result(d, "err")
    ELSE update(d, Edited(tasks[1]), clock, fkeys)

\* Faulty variant of edit_utils::delete_task: of several tasks found the
\* first is deleted.
edit_utils_delete_taskFirst(d, ulid_suffix, clock, fkeys) ==
    LET tasks == search_using_ulid(d, ulid_suffix) IN
    IF tasks = <<>> THEN Result(d, "panic")
    ELSE delete(d, tasks[1], clock, fkeys)

\* edit_utils::delete_task
edit_utils_delete_task(d, ulid_suffix, clock, fkeys) ==
    LET tasks == search_using_ulid(d, ulid_suffix) IN
    IF Len(tasks) > 1 THEN Result(d, "panic")
    ELSE IF tasks = <<>> THEN Result(d, "panic")
    ELSE delete(d, tasks[1], clock, fkeys)

\* a task due on the date the clock starts on that recurs every day
DailyTask(ulid) ==
    Task(ulid, "daily", None, None, Some(StartNow), None, Some("P1D"), None,
         Some("rookie"), None, None)

\* the tasks a store of CmdSpec may hold
CmdRows(ulid) == {Row(t, OldTime) : t \in {PlainTask(ulid), DailyTask(ulid)}}

\* the store holds none, one or both of the identifiers, which end alike
CmdInit ==
    /\ foreign_keys \in BOOLEAN
    /\ now = StartNow
    /\ \E held \in SUBSET Ulids :
        \E rows \in {f \in [held -> UNION {CmdRows(u) : u \in Ulids}] :
                        \A u \in held : f[u] \in CmdRows(u)} :
            db = [s \in Stores |-> [EmptyDb EXCEPT !.tasks = rows]]
    /\ nops = 0
    /\ last = NoCall
    /\ first_op = None
    /\ sync = IdleSync
    /\ pre = db
    /\ shared_state = NewMutex
    /\ handlers = [h \in Handlers |-> IdleHandler]

\* a command with its suffix has run and returned
Command(o, ulid_suffix, r) ==
    /\ nops < MaxCalls
    /\ nops' = nops + 1
    /\ db' = [db EXCEPT !["self"] = r.db]
    /\ pre' = db
    /\ last' = [res |-> r.res, op |-> o, store |-> "self", at |-> now,
                suffix |-> ulid_suffix]
    /\ UNCHANGED <<shared_state, handlers, foreign_keys, now, first_op, sync>>

\* "rust_tasks do <ulid_suffix>"; Ulid::new() is new to the store
CmdDo(ulid_suffix, default_ulid) ==
    /\ default_ulid \notin DOMAIN db["self"].tasks
    /\ Command("do", ulid_suffix,
               tasks_do_task(db["self"], ulid_suffix, now, foreign_keys, default_ulid))

\* "rust_tasks edit <ulid_suffix>"
CmdEdit(ulid_suffix, editor) ==
    Command("edit", ulid_suffix, edit_task(db["self"], ulid_suffix, now, foreign_keys, editor))

\* "rust_tasks delete <ulid_suffix>"
CmdDelete(ulid_suffix) ==
    Command("delete", ulid_suffix,
            edit_utils_delete_task(db["self"], ulid_suffix, now, foreign_keys))

\* DELETE /tasks/<ulid_suffix> on the server
CmdServerDelete(ulid_suffix) ==
    Command("delete_task", ulid_suffix,
            delete_task(db["self"], ulid_suffix, now, foreign_keys))

CmdNext ==
    \/ \E ulid_suffix \in Paths : CmdDo(ulid_suffix, NewUlid)
    \/ \E ulid_suffix \in Paths : \E editor \in {"ok", "err"} : CmdEdit(ulid_suffix, editor)
    \/ \E ulid_suffix \in Paths : CmdDelete(ulid_suffix)
    \/ \E ulid_suffix \in Paths : CmdServerDelete(ulid_suffix)

CmdSpec == CmdInit /\ [][CmdNext]_vars

(***************************************************************************)
(* do_task and undo_task on one task, the calls of a client and sync of    *)
(* the store with its peer.  The task was saved with a priority            *)
(* adjustment; it recurs every day or not at all.  The store starts with   *)
(* the task as it was saved, or as an earlier do_task left it: closed,     *)
(* with its next occurrence.                                               *)
(***************************************************************************)
\* Task::undo_task: the store it leaves, how it returned, the task as it is
\* after the call and the calls made on the storage
undo_task(d, self, clock, fkeys) ==
    IF self.closed_utc = None
    THEN [db |-> d, res |-> "ok", task |-> self, calls |-> <<>>]
    ELSE LET opened == [self EXCEPT !.closed_utc = None]
             r == update(d, opened, clock, fkeys)
         IN  [db |-> r.db, res |-> r.res, task |-> opened,
              calls |-> <<Call("update", "self", opened, r.res)>>]

\* "rust_tasks add body p:1 due:... recur:P1D", and the same without a rule
CycleInputs ==
    {[DailyTask(UlidSeq[1]) EXCEPT !.priority_adjustment = Some(1)],
     PriorityTask(UlidSeq[1])}

\* the store after save(t), and after do_task on the task read back
CycleDbs(t, fkeys) ==
    LET saved == save(EmptyDb, t, OldTime[1], fkeys).db
        read == search_using_ulid(saved, t.ulid)[1]
    IN  {saved, do_task(saved, read, OldTime[1], fkeys, UlidSeq[2], "none", "none").db}

CycleInit ==
    /\ foreign_keys \in BOOLEAN
    /\ now = StartNow
    /\ \E t \in CycleInputs : \E d \in CycleDbs(t, foreign_keys) :
        db = [s \in Stores |-> d]
    /\ nops = 0
    /\ last = NoCall
    /\ first_op = None
    /\ sync = IdleSync
    /\ pre = db
    /\ shared_state = NewMutex
    /\ handlers = [h \in Handlers |-> IdleHandler]

\* undo_task on the one task the search finds
UndoTask(u) ==
    LET tasks == search_using_ulid(db["self"], u)
        r == undo_task(db["self"], tasks[1], now, foreign_keys)
    IN  /\ nops < MaxCalls
        /\ Quiet
        /\ Len(tasks) = 1
        /\ db' = [db EXCEPT !["self"] = r.db]
        /\ pre' = db
        /\ last' = [res |-> r.res, op |-> "undo_task", store |-> "self",
                     task |-> tasks[1], at |-> now, calls |-> r.calls, done |-> r.task]
        /\ nops' = nops + 1
        /\ UNCHANGED <<shared_state, handlers, foreign_keys, now, first_op, sync>>

CycleNext ==
    \/ \E u \in Ulids, default_ulid \in {UlidSeq[2], NewUlid} :
            Quiet /\ DoTask(u, default_ulid, "none", "none")
    \/ \E u \in Ulids : UndoTask(u)
    \/ \E s \in Stores, t \in CycleInputs : ClientUpdate(s, t)
    \/ \E s \in Stores, u \in Ulids : ClientDelete(s, DefaultTask(u))
    \/ Tick
    \/ \E n \in NDays : SyncStart(n)
    \/ SyncStep

CycleSpec == CycleInit /\ [][CycleNext]_vars

(***************************************************************************)
(* SQLiteStorage::next_tasks.  DATE('now') and DATETIME('now') are read    *)
(* from the clock.                                                         *)
(***************************************************************************)
\* WHERE DATE(due_utc) <= DATE('now') AND closed_utc IS NULL AND
\*       (ready_utc IS NULL OR DATETIME('now') >= DATETIME(ready_utc))
NextWhere(r, clock) ==
    /\ r.due_utc # None /\ DayOf(r.due_utc[1]) <= DayOf(clock)
    /\ r.closed_utc = None
    /\ (r.ready_utc = None \/ clock >= r.ready_utc[1])

\* Faulty variant of OrderBy: ORDER BY due_utc ASC, priority ASC.
OrderByPriorityAsc(a, b) ==
    \/ a.due_utc[1] < b.due_utc[1]
    \/ a.due_utc = b.due_utc /\ ~OptGT(a.priority_adjustment, b.priority_adjustment)

\* ORDER BY due_utc ASC, priority DESC: row a may stand before row b.
\* NULL sorts below every number.
OrderBy(a, b) ==
    \/ a.due_utc[1] < b.due_utc[1]
    \/ a.due_utc = b.due_utc /\ ~OptGT(b.priority_adjustment, a.priority_adjustment)

\* the orders in which the query may yield the selected rows: rows that
\* ORDER BY does not tell apart come in any order
Sorted(d, hit) ==
    {q \in [1..Cardinality(hit) -> hit] :
        /\ \A i, j \in DOMAIN q : i # j => q[i] # q[j]
        /\ \A i, j \in DOMAIN q : i < j => OrderBy(d.tasks[q[i]], d.tasks[q[j]])}

\* LIMIT {number}
Limit(q, number) == SubSeq(q, 1, IF Len(q) < number THEN Len(q) ELSE number)

\* SQLiteStorage::next_tasks: the results the query may return
next_tasks(d, number, clock) ==
    LET hit == {u \in DOMAIN d.tasks : NextWhere(d.tasks[u], clock)}
    IN  {[i \in 1..Len(Limit(q, number)) |-> ViewTask(d, q[i])] : q \in Sorted(d, hit)}

\* the rows a store of NextSpec may hold for an identifier
NextDues == {None} \cup {Some(x) : x \in 1..MaxNow}
NextRows ==
    {Row(Task(UlidSeq[1], "plain", None, ready, due, closed, None, prio, Some("rookie"), None, None),
         OldTime) :
        ready \in {None, Some(StartNow + 1)},
        due \in NextDues,
        closed \in {None, OldTime},
        prio \in {None, Some(1), Some(2)}}

\* the store holds any rows for any of the identifiers
NextInit ==
    /\ foreign_keys = FALSE
    /\ now = StartNow
    /\ \E held \in SUBSET Ulids : \E rows \in [held -> NextRows] :
        db = [s \in Stores |-> [EmptyDb EXCEPT !.tasks = rows]]
    /\ nops = 0
    /\ last = NoCall
    /\ first_op = None
    /\ sync = IdleSync
    /\ pre = db
    /\ shared_state = NewMutex
    /\ handlers = [h \in Handlers |-> IdleHandler]

\* the values of LIMIT
Counts == 0..Cardinality(Ulids)

\* "rust_tasks leo <number>" and GET /tasks/next/:count
NextTasks(number) ==
    /\ \E tasks \in next_tasks(db["self"], number, now) :
        last' = [res |-> "ok", op |-> "next_tasks", store |-> "self", at |-> now,
                 count |-> number, out |-> tasks]
    /\ UNCHANGED <<shared_state, handlers, foreign_keys, now, db, nops, first_op, sync, pre>>

QueryNext ==
    \/ \E number \in Counts : NextTasks(number)
    \/ Tick

NextSpec == NextInit /\ [][QueryNext]_vars

(***************************************************************************)
(* deleted_ulids on any deleted_tasks table.  modified_utc of the table is  *)
(* nullable (CREATE_DELETED_TASKS_QUERY), and a row is of any earlier time. *)
(***************************************************************************)
TombTimes == {None} \cup {Some(t) : t \in 0..StartNow}

TombInit ==
    /\ foreign_keys = FALSE
    /\ now = StartNow
    /\ \E held \in SUBSET Ulids : \E rows \in [held -> TombTimes] :
        db = [s \in Stores |-> [EmptyDb EXCEPT !.deleted_tasks = rows]]
    /\ nops = 0
    /\ last = NoCall
    /\ first_op = None
    /\ sync = IdleSync
    /\ pre = db
    /\ shared_state = NewMutex
    /\ handlers = [h \in Handlers |-> IdleHandler]

\* the numbers of days deleted_ulids is asked for
DayCounts == 0..DayOf(MaxNow)

\* a call of deleted_ulids(&n) on the store
DeletedUlids(n) ==
    /\ last' = [res |-> "ok", op |-> "deleted_ulids", store |-> "self", at |-> now,
                count |-> n, out |-> deleted_ulids(db["self"], n, now)]
    /\ UNCHANGED <<shared_state, handlers, foreign_keys, now, db, nops, first_op, sync, pre>>

TombNext ==
    \/ \E n \in DayCounts : DeletedUlids(n)
    \/ Tick

TombSpec == TombInit /\ [][TombNext]_vars

(***************************************************************************)
(* What a client observes of a store.                                      *)
(***************************************************************************)
\* the identifiers search finds, and the identifiers with a tombstone
Live(d) == DOMAIN d.tasks
Tombstones(d) == DOMAIN d.deleted_tasks

\* the record search_using_ulid(u) returns, modified_utc set aside
Record(d, u) == Clean(search_using_ulid(d, u)[1])
Modified(d, u) == search_using_ulid(d, u)[1].modified_utc

\* u is live on both stores, with the same record (modified_utc aside)
SameOnBoth(u) ==
    /\ u \in Live(db["self"]) /\ u \in Live(db["other"])
    /\ Record(db["self"], u) = Record(db["other"], u)

\* a pass of sync has returned Ok
Done == sync.pc = "done"

\* every client call was made on or after the cutoff date of the pass
AllOpsInWindow == first_op = None \/ AfterDate(first_op[1], sync.date)

\* before the pass, store s held u with a modified_utc the window selects
InWin(s, u) == u \in Live(pre[s]) /\ InWindow(pre[s].tasks[u].modified_utc, sync.date)

\* before the pass, store s held a tombstone of u the window selects
TombIn(s, u) == u \in Tombstones(pre[s]) /\ InWindow(pre[s].deleted_tasks[u], sync.date)

\* every tag row of the store belongs to a live task
OrphanFree(d) == \A r \in d.task_to_tag : r[1] \in Live(d)

(***************************************************************************)
(* Properties of sync.                                                     *)
(***************************************************************************)
\* C1 - Convergence.  The stores start with the same data; after client
\* calls that were all made inside the window, a pass that returned Ok
\* leaves both stores with the same live identifiers and, for each of
\* them, records that are equal in every field except modified_utc.
C1_Convergence ==
    (Done /\ AllOpsInWindow) =>
        /\ Live(db["self"]) = Live(db["other"])
        /\ \A u \in Live(db["self"]) : SameOnBoth(u)

\* C2 - After a pass that returned Ok, an identifier that was live on
\* exactly one side before the pass is live on both sides with records
\* equal in every field except modified_utc.  Stated for the identifiers
\* the pass looks at: the live record is inside the window and the other
\* side has no tombstone of the identifier inside the window.
C2_OneSidedPropagates ==
    Done => \A u \in Ulids, s \in Stores :
        (InWin(s, u) /\ u \notin Live(pre[Peer(s)]) /\ ~TombIn(Peer(s), u))
            => SameOnBoth(u)

\* u was live on both sides before the pass, with records that differ in
\* content and in modified_utc, and store a held the later one
LaterOn(u, a) ==
    /\ u \in Live(pre[a]) /\ u \in Live(pre[Peer(a)])
    /\ Record(pre[a], u) # Record(pre[Peer(a)], u)
    /\ Modified(pre[a], u) # Modified(pre[Peer(a)], u)
    /\ OptGT(Modified(pre[a], u), Modified(pre[Peer(a)], u))

\* both sides now hold the record store a held before the pass
HoldBoth(u, a) ==
    /\ u \in Live(db[a]) /\ u \in Live(db[Peer(a)])
    /\ Record(db[Peer(a)], u) = Record(pre[a], u)
    /\ Record(db[a], u) = Record(pre[a], u)

NoTombIn(u) == ~TombIn("self", u) /\ ~TombIn("other", u)

\* C3 as stated - Last-write-wins for every identifier live on both sides
\* whose records differ in content and in modified_utc, whatever the age
\* of the records: the earlier side ends with the later side's record and
\* the later side's content is unchanged.
C3_LastWriteWinsAnyAge ==
    Done => \A u \in Ulids, a \in Stores : LaterOn(u, a) => HoldBoth(u, a)

\* C3 - Last-write-wins inside the window: after a pass that returned Ok,
\* for every identifier live on both sides whose records differ in content
\* and in modified_utc, whose later record is inside the window and which
\* has no tombstone inside the window on either side, the earlier side
\* holds the record the later side had before the pass and the later
\* side's content is unchanged.
C3_LastWriteWins ==
    Done => \A u \in Ulids, a \in Stores :
        (LaterOn(u, a) /\ InWin(a, u) /\ NoTombIn(u)) => HoldBoth(u, a)

\* the both-sides branch overwrote the earlier side of such an identifier
C3_Witness ==
    /\ Done
    /\ \E u \in Ulids, a \in Stores :
        /\ LaterOn(u, a) /\ InWin(a, u) /\ InWin(Peer(a), u) /\ NoTombIn(u)
        /\ \E i \in 1..Len(sync.calls) :
            /\ sync.calls[i].op = "update" /\ sync.calls[i].store = Peer(a)
            /\ sync.calls[i].task.ulid = u /\ sync.calls[i].res = "ok"

\* before the pass u was deleted on store a: not live, tombstone present
DeletedOn(u, a) == u \notin Live(pre[a]) /\ u \in Tombstones(pre[a])

GoneOnBoth(u) ==
    /\ u \notin Live(db["self"]) /\ u \notin Live(db["other"])
    /\ u \in Tombstones(db["self"]) /\ u \in Tombstones(db["other"])

\* the pass made this call, and it returned Ok
Called(op, s, u) ==
    \E i \in 1..Len(sync.calls) :
        /\ sync.calls[i].op = op /\ sync.calls[i].store = s
        /\ sync.calls[i].task.ulid = u /\ sync.calls[i].res = "ok"

\* C4 as stated - Deletion propagation whatever the age of the tombstone:
\* if an identifier is deleted on one side and live on the other, then
\* after a pass that returned Ok it is live on neither side and tombstoned
\* on both.
C4_DeletionPropagatesAnyAge ==
    Done => \A u \in Ulids, a \in Stores :
        (DeletedOn(u, a) /\ u \in Live(pre[Peer(a)])) => GoneOnBoth(u)

\* C4 - Deletion propagation inside the window: if an identifier is
\* deleted on one side with its tombstone inside the window, and the other
\* side holds a live copy and no tombstone of it inside the window, then
\* after a pass that returned Ok the identifier is live on neither side and
\* tombstoned on both.
C4_DeletionPropagates ==
    Done => \A u \in Ulids, a \in Stores :
        (DeletedOn(u, a) /\ TombIn(a, u) /\ u \in Live(pre[Peer(a)]) /\ ~TombIn(Peer(a), u))
            => GoneOnBoth(u)

\* the pass deleted the live copy on the other side
C4_Witness ==
    /\ Done
    /\ \E u \in Ulids, a \in Stores :
        /\ DeletedOn(u, a) /\ TombIn(a, u)
        /\ u \in Live(pre[Peer(a)]) /\ ~TombIn(Peer(a), u)
        /\ Called("delete", Peer(a), u)

\* a pass has started
InPass == sync.pc # "idle"

\* every delete of the pass comes before its first save or update
DeletesFirst ==
    \A i, j \in 1..Len(sync.calls) :
        (sync.calls[i].op = "delete" /\ sync.calls[j].op \in {"save", "update"}) => i < j

\* C5 as stated - No resurrection: in a pass every delete of the tombstone
\* step comes before the first save or update of the content step, and an
\* identifier deleted on one side is never live again on that side.
C5_NoResurrectionAnyAge ==
    InPass =>
        /\ DeletesFirst
        /\ \A u \in Ulids, a \in Stores : DeletedOn(u, a) => u \notin Live(db[a])

\* C5 - No resurrection inside the window: in a pass every delete of the
\* tombstone step comes before the first save or update of the content
\* step, and an identifier deleted on one side, whose tombstone is inside
\* the window and which has no tombstone inside the window on the other
\* side, is never live again on the deleting side, even when the other
\* side's copy was modified after the deletion.
C5_NoResurrection ==
    InPass =>
        /\ DeletesFirst
        /\ \A u \in Ulids, a \in Stores :
            (DeletedOn(u, a) /\ TombIn(a, u) /\ ~TombIn(Peer(a), u)) => u \notin Live(db[a])

\* the other side's copy was modified after the deletion, inside the window,
\* and the pass deleted it
C5_Witness ==
    /\ Done
    /\ \E u \in Ulids, a \in Stores :
        /\ DeletedOn(u, a) /\ TombIn(a, u) /\ ~TombIn(Peer(a), u)
        /\ InWin(Peer(a), u)
        /\ OptGT(Modified(pre[Peer(a)], u), pre[a].deleted_tasks[u])
        /\ Called("delete", Peer(a), u)
        /\ u \notin Live(db[a])

\* the second pass runs after a first pass that returned Ok
Second == sync.pass = "second" /\ sync.first_ok

\* C6 - Sync idempotence: when a pass has returned Ok and sync is run again
\* with no client call in between, the second pass makes no save, update
\* or delete call on either side.  Stated for a second pass that has the
\* same cutoff date as the first.
C6_Idempotent ==
    (Second /\ sync.date = sync.prev_date) => sync.calls = <<>>

\* before the pass u was live on both sides inside the window, with records
\* that differ in content and the same modified_utc
Tie(u) ==
    /\ InWin("self", u) /\ InWin("other", u)
    /\ Record(pre["self"], u) # Record(pre["other"], u)
    /\ Modified(pre["self"], u) = Modified(pre["other"], u)

\* both sides now hold the record store a held before the pass
Keeps(u, a) ==
    /\ u \in Live(db["self"]) /\ u \in Live(db["other"])
    /\ Record(db["self"], u) = Record(pre[a], u)
    /\ Record(db["other"], u) = Record(pre[a], u)

Found == search_using_ulid(db[last.store], last.task.ulid)

\* the last call was this operation and returned Ok
Returned(op) == last.op = op /\ last.res = "ok"

\* C8 - Save/search round-trip: after save(T) returned Ok,
\* search_using_ulid(T.ulid) returns exactly one record, equal to T in
\* every field except modified_utc.
C8_SaveRoundTrip ==
    Returned("save") => (Len(Found) = 1 /\ Clean(Found[1]) = Clean(last.task))

\* C9 - After delete(T) returned Ok, search_using_ulid(T.ulid) returns no
\* record and T.ulid is in deleted_ulids(n) for every n at least the number
\* of days elapsed since the deletion, n = 0 on the day of the deletion
\* included.
C9_DeleteThenAbsent ==
    Returned("delete") =>
        /\ Found = <<>>
        /\ \A n \in DayCounts :
            n >= DayOf(now) - DayOf(last.at)
                => last.task.ulid \in deleted_ulids(db[last.store], n, now)

\* a delete returned Ok on an earlier date
C9_Witness ==
    /\ Returned("delete") /\ DayOf(now) > DayOf(last.at)
    /\ last.task.ulid \in deleted_ulids(db[last.store], 1, now)
    /\ last.task.ulid \notin deleted_ulids(db[last.store], 0, now)

\* C10 - save(T) on a store that holds a live task with T's identifier
\* returns an error and leaves the tasks, the tags and the tombstones of
\* the store unchanged.
C10_SaveExisting ==
    [][\A u \in Ulids : \A t \in StoreInputs(u) :
        (StoreSave(t) /\ u \in Live(db["self"]))
            => (last'.res = "err" /\ db'["self"] = db["self"])]_vars

\* a save of an identifier the store holds has returned an error
C10_Witness ==
    /\ last.op = "save" /\ last.res = "err"
    /\ last.task.ulid \in Live(db[last.store])
    /\ Record(db[last.store], last.task.ulid) # Clean(last.task)

\* C11 - update(T) on a store that holds no live task with T's identifier
\* returns an error and leaves the tasks, the tags and the tombstones of
\* the store unchanged.
C11_UpdateMissing ==
    [][\A u \in Ulids : \A t \in StoreInputs(u) :
        (StoreUpdate(t) /\ u \notin Live(db["self"]))
            => (last'.res = "err" /\ db'["self"] = db["self"])]_vars

\* C12 - delete(T) for an identifier with no live task returns an error,
\* adds no tombstone and removes nothing: the tasks, the tags and the
\* tombstones of the store are unchanged.
C12_DeleteMissing ==
    [][\A u \in Ulids :
        (StoreDelete(DefaultTask(u)) /\ u \notin Live(db["self"]))
            => (last'.res = "err" /\ db'["self"] = db["self"])]_vars

\* a delete of an identifier that was never live has returned an error
C12_Witness ==
    /\ last.op = "delete" /\ last.res = "err"
    /\ last.task.ulid \notin Live(db[last.store])
    /\ last.task.ulid \notin Tombstones(db[last.store])

\* C13 - APIStorage::delete(T) for an identifier that is not live on the
\* server returns an error and leaves the tasks and the tombstones of the
\* server unchanged: no task is created and no tombstone is recorded.
C13_ApiDeleteMissing ==
    [][\A u \in Ulids : \A t \in ApiInputs(u) :
        (ApiDelete(t) /\ u \notin Live(db["self"]))
            => /\ last'.res = "err"
               /\ db'["self"].tasks = db["self"].tasks
               /\ db'["self"].deleted_tasks = db["self"].deleted_tasks]_vars

\* the tags the rows of task_to_tag associate with u
TagsOf(d, u) == {r[2] : r \in {x \in d.task_to_tag : x[1] = u}}

\* the tags of the argument of a call
Given(t) == IF t.tags = None THEN {} ELSE Range(t.tags[1])

\* C14 - After update(T) returned Ok, the tags associated with T.ulid are
\* exactly the elements of T.tags: every tag associated with the
\* identifier before the call that is not in T.tags is gone, and every tag
\* in T.tags is present.
C14_UpdateReplacesTags ==
    Returned("update") => TagsOf(db[last.store], last.task.ulid) = Given(last.task)

\* an update of a live task took a tag away and added another
C14_Witness ==
    /\ Returned("update") /\ last.task.ulid \in Live(db[last.store])
    /\ TagsOf(db[last.store], last.task.ulid) = {"meeting,work"}
    /\ pre["self"] = LegacyDb

\* C16 - In every reachable state of a store no task is associated with
\* the same tag more than once, even when save or update is given a tag
\* list that holds a duplicate.
C16_NoDuplicateTags ==
    \A s \in Stores, u \in Ulids, x \in Tags :
        Cardinality(TagRows(db[s].task_to_tag, u, x)) <= 1

\* a save or an update was given the same tag twice and returned Ok
C16_Witness ==
    /\ last.op \in {"save", "update"} /\ last.res = "ok"
    /\ last.task.tags = Some(<<"work", "work">>)
    /\ Cardinality(TagRows(db[last.store].task_to_tag, last.task.ulid, "work")) = 1

\* the step is a delete of u on store s that returned Ok, made by a client
\* or by the pass of sync
DeleteOk(s, u) ==
    \/ ClientDelete(s, DefaultTask(u)) /\ last'.res = "ok"
    \/ /\ Len(sync'.calls) = Len(sync.calls) + 1
       /\ LET c == sync'.calls[Len(sync'.calls)] IN
            c.op = "delete" /\ c.store = s /\ c.task.ulid = u /\ c.res = "ok"

\* C15 - Over any sequence of save, update, delete and sync steps the
\* tombstone set of a store only grows; each delete that returned Ok adds
\* exactly one tombstone, for the deleted identifier, which had none; and
\* a tombstone is added by nothing else.
C15_TombstonesGrow ==
    [][\A s \in Stores :
        /\ Tombstones(db[s]) \subseteq Tombstones(db'[s])
        /\ \A u \in Ulids : DeleteOk(s, u) =>
                /\ u \notin Tombstones(db[s])
                /\ Tombstones(db'[s]) = Tombstones(db[s]) \cup {u}
        /\ Tombstones(db'[s]) # Tombstones(db[s]) => \E u \in Ulids : DeleteOk(s, u)]_vars

\* one store holds a tombstone written by a delete of a client, the other
\* the tombstone the pass of sync wrote for the same identifier
C15_Witness ==
    /\ Done
    /\ \E s \in Stores, u \in Ulids :
        /\ u \in Tombstones(pre[Peer(s)])
        /\ Called("delete", s, u)
        /\ u \in Tombstones(db[s]) /\ u \notin Tombstones(pre[s])

(***************************************************************************)
(* Properties of recurrence.                                               *)
(***************************************************************************)
\* the days the business-day rule adds to a date
JobDays(date) ==
    IF date % 7 = 4 THEN 3 ELSE IF date % 7 = 5 THEN 2 ELSE 1

\* the time stamp x, moved by the given number of days
Later(x, days) == x + days * TicksPerDay

\* C19 - next_task of a task with no recurrence rule is None.  next_task
\* of a task with a due date and the business-day rule is a task whose due
\* date is 3 days later when the due date is a Friday, 2 days later when
\* it is a Saturday and 1 day later on every other weekday, at the same
\* time of day; its ready_utc is moved by the same number of days when
\* present and is None otherwise; its identifier differs from the
\* original's and it keeps the business-day rule.
C19_BusinessDay ==
    last.op = "next_task" =>
        /\ last.task.recurrence_duration = None => (last.res = "ok" /\ last.next = None)
        /\ (last.task.recurrence_duration = Some("P1JD") /\ last.task.due_utc # None) =>
            /\ last.res = "ok" /\ last.next # None
            /\ LET days == JobDays(DayOf(last.task.due_utc[1]))
                   new_task == last.next[1]
               IN  /\ new_task.due_utc = Some(Later(last.task.due_utc[1], days))
                   /\ new_task.ready_utc =
                        IF last.task.ready_utc = None THEN None
                        ELSE Some(Later(last.task.ready_utc[1], days))
                   /\ new_task.ulid # last.task.ulid
                   /\ new_task.recurrence_duration = Some("P1JD")

\* next_task moved a Saturday due date and a ready time to the Monday
C19_Witness ==
    /\ last.op = "next_task" /\ last.res = "ok" /\ last.next # None
    /\ last.task.recurrence_duration = Some("P1JD")
    /\ last.task.ready_utc # None
    /\ DayOf(last.task.due_utc[1]) = 5
    /\ DayOf(last.next[1].due_utc[1]) = 7

(***************************************************************************)
(* Properties of do_task.                                                  *)
(***************************************************************************)
\* C17 - do_task on a task whose closed_utc is set returns Ok, makes no
\* save and no update on the store, creates no next occurrence (the store
\* is as it was) and leaves closed_utc as it was.
C17_CloseIdempotent ==
    (last.op = "do_task" /\ last.task.closed_utc # None) =>
        /\ last.res = "ok"
        /\ last.calls = <<>>
        /\ db["self"] = pre["self"]
        /\ last.done.closed_utc = last.task.closed_utc

\* do_task ran on a recurring task that an earlier do_task had closed
C17_Witness ==
    /\ last.op = "do_task" /\ last.res = "ok"
    /\ last.task.recurrence_duration # None
    /\ last.task.closed_utc # None /\ last.task.closed_utc # OldTime
    /\ Cardinality(Live(db["self"])) = 2

\* the last call was do_task on an open task with a recurrence rule
OpenRecurring ==
    /\ last.op = "do_task"
    /\ last.task.closed_utc = None /\ last.task.recurrence_duration # None

\* closed_utc of the task of the last call, as the store holds it
StoredClosed == db["self"].tasks[last.task.ulid].closed_utc

\* C18 - do_task on an open recurring task first saves the next
\* occurrence and then updates the task as closed.  If the save fails,
\* do_task returns an error, no update is made and the stored task is not
\* closed.  If the update fails, do_task returns an error and the next
\* occurrence is stored.
C18_NextBeforeClose ==
    OpenRecurring =>
        /\ Len(last.calls) \in {1, 2}
        /\ last.calls[1].op = "save" /\ last.calls[1].task.ulid # last.task.ulid
        /\ last.calls[1].res # "ok" =>
                /\ Len(last.calls) = 1 /\ last.res = "err"
                /\ StoredClosed = None
        /\ last.calls[1].res = "ok" =>
                /\ Len(last.calls) = 2
                /\ last.calls[2].op = "update"
                /\ last.calls[2].task.ulid = last.task.ulid
                /\ last.calls[2].task.closed_utc = Some(last.at)
                /\ last.calls[1].task.ulid \in Live(db["self"]) \ Live(pre["self"])
                /\ last.res = last.calls[2].res
                /\ last.calls[2].res # "ok" => last.res = "err"

\* the update that closes the task failed after the next occurrence, due
\* on the Monday after the Friday, was saved
C18_Witness ==
    /\ OpenRecurring /\ last.res = "err"
    /\ Len(last.calls) = 2 /\ last.calls[2].res = "err"
    /\ StoredClosed = None
    /\ last.calls[1].task.ulid \in Live(db["self"])
    /\ DayOf(db["self"].tasks[last.calls[1].task.ulid].due_utc[1]) = 7

(***************************************************************************)
(* Properties of next_tasks.                                               *)
(***************************************************************************)
\* the row of the store behind a returned task
RowOf(t) == db["self"].tasks[t.ulid]

\* at the time of the last call the task of this row was due, open and
\* ready
Eligible(r) ==
    /\ r.due_utc # None /\ DayOf(r.due_utc[1]) <= DayOf(last.at)
    /\ r.closed_utc = None
    /\ (r.ready_utc = None \/ r.ready_utc[1] <= last.at)

\* row a comes strictly before row b: an earlier due date or, with the same
\* due date, a higher priority (no priority is the lowest)
Precedes(a, b) ==
    \/ a.due_utc[1] < b.due_utc[1]
    \/ a.due_utc = b.due_utc /\ OptGT(a.priority_adjustment, b.priority_adjustment)

\* C20 - next_tasks(n) returns at most n tasks; every returned task has a
\* due date not after today, is not closed, and has no ready time or a
\* ready time not after now, so a task without a due date is never
\* returned; the result is ordered by due_utc ascending and, among equal
\* due_utc, by priority descending; and no eligible task that was left out
\* comes before a returned one in that order.
C20_NextTasks ==
    last.op = "next_tasks" =>
        /\ Len(last.out) <= last.count
        /\ \A i \in DOMAIN last.out :
            /\ Eligible(RowOf(last.out[i]))
            /\ last.out[i].due_utc # None /\ DayOf(last.out[i].due_utc[1]) <= DayOf(last.at)
            /\ last.out[i].closed_utc = None
            /\ last.out[i].ready_utc = None \/ last.out[i].ready_utc[1] <= last.at
        /\ \A i, j \in DOMAIN last.out :
            i < j => ~Precedes(RowOf(last.out[j]), RowOf(last.out[i]))
        /\ \A u \in Live(db["self"]) :
            (Eligible(db["self"].tasks[u]) /\ \A i \in DOMAIN last.out : last.out[i].ulid # u)
                => \A i \in DOMAIN last.out : ~Precedes(db["self"].tasks[u], RowOf(last.out[i]))

\* of two eligible tasks with the same due date, next_tasks(1) returned
\* the one with the higher priority, which has the later identifier
C20_Witness ==
    /\ last.op = "next_tasks" /\ last.count = 1 /\ Len(last.out) = 1
    /\ last.out[1].ulid = UlidSeq[2]
    /\ UlidSeq[1] \in Live(db["self"]) /\ Eligible(db["self"].tasks[UlidSeq[1]])
    /\ db["self"].tasks[UlidSeq[1]].due_utc = RowOf(last.out[1]).due_utc
    /\ OptGT(RowOf(last.out[1]).priority_adjustment, db["self"].tasks[UlidSeq[1]].priority_adjustment)

\* the age in days of a tombstone time at the time of a call
AgeInDays(time, clock) == DayOf(clock) - DayOf(time[1])

\* the tombstones deleted_ulids(n) is to return at the time of the call
Recent(d, n, clock) ==
    {u \in Tombstones(d) :
        d.deleted_tasks[u] = None \/ AgeInDays(d.deleted_tasks[u], clock) <= n}

\* C21 - deleted_ulids(n) returns exactly the identifiers whose tombstone
\* time lies within the last n days and those whose tombstone has no time;
\* a tombstone older than n days is not returned.
C21_DeletedUlids ==
    last.op = "deleted_ulids" =>
        /\ last.out = Recent(db[last.store], last.count, last.at)
        /\ \A u \in Tombstones(db[last.store]) :
            LET time == db[last.store].deleted_tasks[u] IN
            (time # None /\ AgeInDays(time, last.at) > last.count) => u \notin last.out

\* deleted_ulids(1) returned a tombstone without a time and left out a
\* tombstone of two days before
C21_Witness ==
    /\ last.op = "deleted_ulids" /\ last.count = 1
    /\ \E u, v \in Tombstones(db[last.store]) :
        /\ db[last.store].deleted_tasks[u] = None
        /\ db[last.store].deleted_tasks[v] # None
        /\ AgeInDays(db[last.store].deleted_tasks[v], last.at) = 2
        /\ last.out = {u}

\* the handlers that hold a guard of the Mutex
Holders == {h \in Handlers : handlers[h].pc \in Locked}

\* the storage call of the handler r run alone on the database it found
\* when it took the lock
Alone(r) ==
    LET d == r.start[1] IN
    CASE r.op = "save_task" -> save(d, r.task, now, foreign_keys)
      [] r.op = "patch_task" ->
            IF r.ulid # r.task.ulid THEN Result(d, "err")
            ELSE update(d, r.task, now, foreign_keys)
      [] r.op = "delete_task" -> delete_task(d, r.ulid, now, foreign_keys)
      [] r.op = "get_day_summary" ->
            Result(d, IF \E i \in 1..Len(r.relevant_tags) : r.relevant_tags[i] \in Quoted
                      THEN "panic" ELSE "ok")

\* C22 - In the server at most one request handler is executing a storage
\* operation at any time, and the statements of one handler's storage call
\* never interleave with those of another's: when a handler is about to
\* return, the database and the outcome are those of its storage call run
\* alone on the database it found when it took the lock.
C22_HandlersSerialized ==
    /\ Cardinality(Holders) <= 1
    /\ \A h \in Handlers :
        handlers[h].pc = "return" =>
            /\ db["self"] = Alone(handlers[h]).db
            /\ handlers[h].res = Alone(handlers[h]).res

\* a patch_task has run its update, delete-tags and insert-tags statements
\* while a delete_task of the same task waited for the lock
C22_Witness ==
    \E h, g \in Handlers :
        /\ handlers[h].op = "patch_task" /\ handlers[h].pc = "return"
        /\ handlers[h].res = "ok" /\ handlers[h].task.tags # None
        /\ handlers[h].task.ulid \in Live(db["self"])
        /\ handlers[g].op = "delete_task" /\ handlers[g].pc = "lock"
        /\ handlers[g].ulid = handlers[h].task.ulid

\* C23 - Every handler releases the lock on every exit path: once no
\* handler is running a storage call, whether the calls succeeded, returned
\* an error or failed inside the backend, the lock is free and a later
\* request can take it and be served.
C23_LockReleased ==
    Holders = {} => (CanLock(shared_state) /\ ~shared_state.poisoned)

\* C24 - sync(peer, n_days) called on a remote-API backend runs the
\* synchronization algorithm against the peer and returns a result, Ok or
\* Err, as it does on the embedded-database backend.
C24_ApiSyncReturns ==
    last.op = "api_sync" => last.res \in {"ok", "err"}

\* C25 - deleted_ulids(n) called on the remote-API backend returns the set
\* that deleted_ulids(n) returns on the database of the server.
C25_ApiDeletedUlids ==
    last.op = "api_deleted_ulids" =>
        /\ last.res = "ok"
        /\ last.out = deleted_ulids(db[last.store], last.count, last.at)

\* the number of tasks the suffix of the last command matched
Matched == Len(search_using_ulid(pre["self"], last.suffix))

\* C26 - The do, edit and delete commands and the delete handler of the
\* server, given a suffix that matches no task or more than one task, fail
\* and perform no save, update or delete on the store.
C26_NoAutoResolve ==
    (last.op \in {"do", "edit", "delete", "delete_task"} /\ Matched # 1) =>
        /\ last.res \in {"err", "panic"}
        /\ db = pre

\* a delete command was given a suffix two tasks end with, after a do
\* command that closed a task
C26_Witness ==
    /\ last.op = "delete" /\ last.suffix = <<"z">> /\ Matched = 2
    /\ last.res = "panic"
    /\ \E u \in Ulids : db["self"].tasks[u].closed_utc = Some(now)

\* the calls the pass has logged that returned an Err
Erred(i) == sync.calls[i].res \in {"err", "down"}

\* the call is the last one of the pass, which has returned its Err
Aborted(i) == i = Len(sync.calls) /\ sync.pc = "failed"

\* what store s holds of the identifier u
Held(d, u) ==
    <<IF u \in Live(d) THEN <<d.tasks[u]>> ELSE <<>>,
      {r \in d.task_to_tag : r[1] = u},
      IF u \in Tombstones(d) THEN <<d.deleted_tasks[u]>> ELSE <<>> >>

\* the step leaves everything as it was but what the failed call c itself
\* wrote: the data of its task on its store
Kept(c) ==
    \A s \in Stores, u \in Ulids :
        (c.task = None \/ s # c.store \/ u # c.task.ulid) => Held(db'[s], u) = Held(db[s], u)

\* C27 - A backend error during a pass other than a failed save (a failed
\* deleted_ulids, search, delete, unsafe_query or update, on either side)
\* aborts the pass at once: sync returns the error and makes no further
\* call on either backend, and the writes made earlier in the pass stay.
C27_ErrorAborts ==
    /\ [](\A i \in 1..Len(sync.calls) :
            (Erred(i) /\ sync.calls[i].op # "save") => Aborted(i))
    /\ [][/\ (sync.pc = "failed" /\ sync'.pass = sync.pass)
                => (db' = db /\ sync'.calls = sync.calls)
          /\ (sync.pc # "failed" /\ sync'.pc = "failed"
                /\ sync'.calls[Len(sync'.calls)].res = "down")
                => Kept(sync'.calls[Len(sync'.calls)])]_vars

\* the pass made a write and then ended on a call the backend did not
\* answer
C27_Witness ==
    /\ sync.pc = "failed" /\ Len(sync.calls) = 2
    /\ sync.calls[1].res = "ok" /\ sync.calls[1].op \in {"save", "delete"}
    /\ sync.calls[2].res = "down" /\ sync.calls[2].op \in {"update", "delete"}
    /\ db # pre

\* C28 - During sync only a constraint violation on save triggers the
\* fallback to update: a save that fails for another reason, such as an
\* unreachable backend, aborts the pass and no update is attempted for
\* that task.
C28_OnlyConflictFallsBack ==
    \A i \in 1..Len(sync.calls) :
        (sync.calls[i].op = "save" /\ sync.calls[i].res = "down") => Aborted(i)

\* the live tasks of a store as search returns them, modified_utc aside
LiveRecords(d) == [u \in Live(d) |-> Record(d, u)]

\* the first pass was aborted and sync, run again with the same cutoff date
\* and no call of a client in between, has returned Ok
Resumed ==
    /\ sync.pass = "second" /\ Done
    /\ ~sync.first_ok /\ sync.date = sync.prev_date

\* C29 - Sync is resumable: when a pass was aborted by a backend error after
\* any number of its writes and sync is then run again to completion with
\* no mutation in between, both stores hold the live tasks (modified_utc
\* aside) that one uninterrupted pass from the original state would have
\* left.
C29_Resumable ==
    Resumed =>
        LET whole == sync_pass(sync.origin, sync.date, now, foreign_keys) IN
        whole.res = "ok" =>
            \A s \in Stores : LiveRecords(db[s]) = LiveRecords(whole.db[s])

\* before the pass, store a held u inside the window and its peer held u
\* with a modified_utc outside the window
OneSided(u, a) ==
    /\ InWin(a, u)
    /\ u \in Live(pre[Peer(a)])
    /\ ~InWindow(pre[Peer(a)].tasks[u].modified_utc, sync.date)

\* call i of the pass is a save of u on store s
SaveOf(i, s, u) ==
    /\ sync.calls[i].op = "save" /\ sync.calls[i].store = s
    /\ sync.calls[i].task.ulid = u

\* call i returned an Err and the next call is an update of the same task
\* on the same store, which returned Ok
FellBack(i) ==
    /\ sync.calls[i].res = "err"
    /\ i < Len(sync.calls)
    /\ sync.calls[i + 1] = [sync.calls[i] EXCEPT !.res = "ok", !.op = "update"]

\* the save of u on the peer of a failed and was followed by an update that
\* returned Ok; after the pass the peer holds the record a held before it
FallsBack(u, a) ==
    /\ \A i \in 1..Len(sync.calls) : SaveOf(i, Peer(a), u) => FellBack(i)
    /\ Done =>
        /\ \E i \in 1..Len(sync.calls) : SaveOf(i, Peer(a), u)
        /\ u \in Live(db[Peer(a)])
        /\ Record(db[Peer(a)], u) = Record(pre[a], u)

\* C30 as stated - Save-then-update fallback for every identifier that is
\* inside the window on one side only and held outside the window by the
\* other side: the save on the other side fails, update follows and
\* returns Ok, and after the pass the other side's record equals the
\* in-window record, modified_utc aside; in both directions.
C30_FallbackAnyTombstone ==
    InPass => \A u \in Ulids, a \in Stores : OneSided(u, a) => FallsBack(u, a)

\* C30 - Save-then-update fallback, for an identifier that has no tombstone
\* inside the window on either side: when it is inside the window on one
\* side only and the other side holds it with a modified_utc outside the
\* window, the save on the other side fails, update follows and returns
\* Ok, and after the pass the other side's record equals the in-window
\* record, modified_utc aside; in both directions.
C30_Fallback ==
    InPass => \A u \in Ulids, a \in Stores :
        (OneSided(u, a) /\ NoTombIn(u)) => FallsBack(u, a)

C30_Witness ==
    /\ Done
    /\ \E u \in Ulids, a \in Stores :
        /\ OneSided(u, a) /\ NoTombIn(u) /\ FallsBack(u, a)
        /\ Record(pre[a], u) # Record(pre[Peer(a)], u)

\* before the pass, u was live somewhere and every store that held it had
\* it with a modified_utc older than the window
OldEverywhere(u) ==
    /\ \E s \in Stores : u \in Live(pre[s])
    /\ \A s \in Stores : u \in Live(pre[s]) => ~InWin(s, u)

\* the pass has made no call for u and no store holds anything else of u
\* than before the pass
Untouched(u) ==
    /\ \A i \in 1..Len(sync.calls) : sync.calls[i].task.ulid # u
    /\ \A s \in Stores : Held(db[s], u) = Held(pre[s], u)

\* C31 - Sync window frame: a task whose modified_utc is older than the
\* window on every side that holds it, and whose identifier has no
\* tombstone inside the window on either side, is neither written nor
\* deleted by a pass on either side; every delete of a pass is for an
\* identifier whose tombstone on the other side is inside the window.
C31_WindowFrame ==
    InPass =>
        /\ \A u \in Ulids : (OldEverywhere(u) /\ NoTombIn(u)) => Untouched(u)
        /\ \A i \in 1..Len(sync.calls) :
              sync.calls[i].op = "delete"
                  => TombIn(Peer(sync.calls[i].store), sync.calls[i].task.ulid)

C31_Witness ==
    /\ Done
    /\ \E u \in Ulids :
        /\ OldEverywhere(u) /\ NoTombIn(u) /\ Untouched(u)
        /\ ~SameOnBoth(u)
        /\ \E s \in Stores : u \in Tombstones(pre[s])

\* the last call of a client was made during the pass
Raced == "nth" \in DOMAIN last

\* call i of the pass came after the last call of a client and is an update
\* of the same identifier on the same store that returned Ok
Overwrites(i) ==
    /\ i > last.nth
    /\ sync.calls[i].op = "update" /\ sync.calls[i].res = "ok"
    /\ sync.calls[i].store = last.store
    /\ sync.calls[i].task.ulid = last.task.ulid

\* the records the pass has fetched
FetchedRecords ==
    {sync.self_map[k] : k \in DOMAIN sync.self_map}
        \cup {sync.other_map[k] : k \in DOMAIN sync.other_map}

\* C32 - The sync engine holds no lock across a pass: at every position
\* between two calls of a running pass a save, an update and a delete of
\* another client on either store is served; the update of the pass writes
\* the record it fetched, so that it replaces what a client wrote to that
\* identifier after the fetch.
C32_NoLockAcrossPass ==
    /\ (sync.pc \in Running /\ nops < MaxOps) =>
          \A s \in Stores, u \in Ulids :
              /\ \A t \in SyncInputs(u) : ENABLED RaceSave(s, t) /\ ENABLED RaceUpdate(s, t)
              /\ ENABLED RaceDelete(s, DefaultTask(u))
    /\ Raced =>
          \A i \in 1..Len(sync.calls) :
              (Overwrites(i) /\ last.task.ulid \in Live(db[last.store])) =>
                  /\ sync.calls[i].task \in FetchedRecords
                  /\ Record(db[last.store], last.task.ulid) = Clean(sync.calls[i].task)

\* a client's update made after the fetch returned Ok and the pass has
\* replaced what it wrote
C32_Witness ==
    /\ Done /\ Raced
    /\ last.fetched /\ last.op = "update" /\ last.res = "ok"
    /\ \E i \in 1..Len(sync.calls) : Overwrites(i)
    /\ last.task.ulid \in Live(db[last.store])
    /\ Record(db[last.store], last.task.ulid).body # last.task.body

\* the tombstones the pass read on the other side of store s
DeletedOnPeer(s) == IF s = "other" THEN sync.self_deleted ELSE sync.other_deleted

\* C33 - Tombstone reconciliation deletes only the tombstoned identifier:
\* every delete a pass makes on a side is for a task whose identifier is
\* one of the identifiers tombstoned on the other side, never for a
\* different task whose identifier ends with it.
C33_DeletesOnlyTombstoned ==
    \A i \in 1..Len(sync.calls) :
        sync.calls[i].op = "delete"
            => sync.calls[i].task.ulid \in DeletedOnPeer(sync.calls[i].store)

\* the step is an update of the pass that returned Ok, on a store that held
\* the identifier
Replaces ==
    /\ Len(sync'.calls) > Len(sync.calls)
    /\ LET c == sync'.calls[Len(sync'.calls)] IN
        /\ c.op = "update" /\ c.res = "ok"
        /\ c.task.ulid \in Live(db[c.store])

\* C34 - A pass never overwrites a record with a record that was modified
\* earlier: whenever sync calls update on a side for an identifier that
\* side holds, the record written has a modified_utc strictly later than
\* the record it replaces; an absent modified_utc is earlier than every
\* timestamp.
C34_NeverOverwritesWithOlder ==
    [][Replaces =>
        LET c == sync'.calls[Len(sync'.calls)] IN
        OptGT(c.task.modified_utc, db[c.store].tasks[c.task.ulid].modified_utc)]_vars

\* C35 - delete is all-or-nothing: each delete on one store either returns
\* Ok, with the task and its tag rows removed and a tombstone of the
\* identifier in place, or returns an error and leaves the tasks, the tags
\* and the tombstones of the store unchanged.
C35_DeleteAllOrNothing ==
    [][\A u \in Ulids :
        StoreDelete(DefaultTask(u)) =>
            \/ /\ last'.res = "ok"
               /\ u \notin Live(db'["self"])
               /\ ~HasTagRows(db'["self"], u)
               /\ u \in Tombstones(db'["self"])
            \/ /\ last'.res = "err"
               /\ db'["self"] = db["self"]]_vars

\* C36 - Tag referential integrity: in every state reached by save, update
\* and delete calls on a store, whether they returned Ok or an error, every
\* tag row of the store belongs to an identifier that is a live task of the
\* store.
C36_TagsBelongToLiveTasks == OrphanFree(db["self"])

\* priority_adjustment of the row of u, as store s holds it
StoredPriority(d, u) == d.tasks[u].priority_adjustment

\* the step is do_task or undo_task on a task the store holds
WroteBack ==
    /\ last' # last
    /\ last'.op \in {"do_task", "undo_task"} /\ last'.res = "ok"
    /\ last'.task.ulid \in Live(db'["self"])

\* C37 - A read followed by a write-back preserves the priority
\* adjustment: after do_task or undo_task the stored priority_adjustment of
\* the task is the one it had before the call, and after an update of a
\* pass of sync that copies a record to a side it is the one the other
\* side holds.
C37_PriorityPreserved ==
    [][/\ WroteBack =>
            StoredPriority(db'["self"], last'.task.ulid)
                = StoredPriority(db["self"], last'.task.ulid)
       /\ Replaces =>
            LET c == sync'.calls[Len(sync'.calls)] IN
            c.task.ulid \in Live(db[Peer(c.store)]) =>
                StoredPriority(db'[c.store], c.task.ulid)
                    = StoredPriority(db[Peer(c.store)], c.task.ulid)]_vars

\* the rows of store d that are a next occurrence of the row of u: the body
\* and the recurrence rule of u, and the due date next_task computes
Occurrences(d, u) ==
    {v \in DOMAIN d.tasks \ {u} :
        /\ d.tasks[v].body = d.tasks[u].body
        /\ d.tasks[v].recurrence_duration = d.tasks[u].recurrence_duration
        /\ d.tasks[v].due_utc = next_task(ViewTask(d, u), v).task[1].due_utc}

\* C38 - A recurring series is never duplicated: over any sequence of
\* do_task and undo_task calls on a recurring task, the store holds at most
\* one next occurrence derived from that task.
C38_OneNextOccurrence ==
    \A u \in Live(db["self"]) :
        (db["self"].tasks[u].recurrence_duration # None /\ db["self"].tasks[u].due_utc # None)
            => Cardinality(Occurrences(db["self"], u)) <= 1

\* the date is a Monday to Friday
BusinessDay(date) == weekday(<<date, 0>>) \in {"Mon", "Tue", "Wed", "Thu", "Fri"}

\* next_task was applied to a task with a due date and the business-day rule
JobDayCall ==
    /\ last.op = "next_task"
    /\ last.task.recurrence_duration = Some("P1JD") /\ last.task.due_utc # None

\* C39 - For every due date, whatever its day of the week, the next
\* occurrence computed with the business-day rule is due on a Monday to
\* Friday, and on the earliest such day strictly after the due date.
C39_NextBusinessDay ==
    JobDayCall =>
        /\ last.res = "ok" /\ last.next # None
        /\ LET from == DayOf(last.task.due_utc[1])
               to == DayOf(last.next[1].due_utc[1])
           IN  /\ BusinessDay(to)
               /\ to > from
               /\ \A date \in (from + 1)..(to - 1) : ~BusinessDay(date)

\* next_task moved a due date of a Friday afternoon to the Monday
C39_Witness ==
    /\ JobDayCall /\ last.res = "ok" /\ last.next # None
    /\ weekday(parse_from_str(last.task.due_utc[1])) = "Fri"
    /\ weekday(parse_from_str(last.next[1].due_utc[1])) = "Mon"
    /\ last.task.due_utc[1] % TicksPerDay # 0

====
